---- MODULE Spec2Model ----
(***************************************************************************)
(* ZeroSpoof: a model of the DNS resolver wrapper, the provider detector,  *)
(* the four record checkers (MX, SPF, DKIM, DMARC) and the scoring engine. *)
(* Strings are TLA+ strings; the Python string methods the code uses are   *)
(* defined character by character below.                                   *)
(***************************************************************************)
EXTENDS Integers, Sequences, FiniteSets, TLC

(***************************************************************************)
(* Python values                                                           *)
(***************************************************************************)
\* Optional values: None is the empty tuple, a present value v is <<v>>.
None == <<>>
Some(v) == <<v>>

EmptyDict == [k \in {} |-> ""]

DictGet(d, k, default) == IF k \in DOMAIN d THEN d[k] ELSE default

DictSet(d, k, v) == (k :> v) @@ d

(***************************************************************************)
(* Python string methods                                                   *)
(***************************************************************************)
\* The strings of the model are made of the characters U+0001..U+00FF; the
\* whitespace, the cased letters and the digits of Python beyond that range
\* (U+2003, U+212A, U+0665, ...) have no counterpart here.
Char(s, i) == SubSeq(s, i, i)

Min(S) == CHOOSE x \in S : \A y \in S : x <= y

Max(S) == CHOOSE x \in S : \A y \in S : x >= y

\* the k-th smallest element of a set of numbers
Kth(S, k) == CHOOSE x \in S : Cardinality({y \in S : y < x}) = k - 1

\* the concatenation of chars[lo..hi], a sequence of strings
RECURSIVE concat(_, _, _)
concat(chars, lo, hi) ==
  IF lo > hi THEN ""
  ELSE IF lo = hi THEN chars[lo]
  ELSE LET mid == (lo + hi) \div 2
       IN concat(chars, lo, mid) \o concat(chars, mid + 1, hi)

\* the characters c with c.isspace(), among U+0001..U+00FF: tab, line feed,
\* vertical tab, form feed, carriage return, the separators U+001C..U+001F,
\* space, next line (U+0085) and no-break space (U+00A0)
Whitespace ==
  {" ", "\t", "\n", "\r", "\f", "", "", "", "", "", "", " "}

IsSpace(c) == c \in Whitespace

\* c.lower() for a character of U+0001..U+00FF: A-Z and the cased Latin-1
\* letters U+00C0..U+00DE (the multiplication sign U+00D7 is not a letter)
LowerChar(c) ==
  CASE c = "A" -> "a" [] c = "B" -> "b" [] c = "C" -> "c" [] c = "D" -> "d"
    [] c = "E" -> "e" [] c = "F" -> "f" [] c = "G" -> "g" [] c = "H" -> "h"
    [] c = "I" -> "i" [] c = "J" -> "j" [] c = "K" -> "k" [] c = "L" -> "l"
    [] c = "M" -> "m" [] c = "N" -> "n" [] c = "O" -> "o" [] c = "P" -> "p"
    [] c = "Q" -> "q" [] c = "R" -> "r" [] c = "S" -> "s" [] c = "T" -> "t"
    [] c = "U" -> "u" [] c = "V" -> "v" [] c = "W" -> "w" [] c = "X" -> "x"
    [] c = "Y" -> "y" [] c = "Z" -> "z"
    [] c = "À" -> "à" [] c = "Á" -> "á" [] c = "Â" -> "â" [] c = "Ã" -> "ã"
    [] c = "Ä" -> "ä" [] c = "Å" -> "å" [] c = "Æ" -> "æ" [] c = "Ç" -> "ç"
    [] c = "È" -> "è" [] c = "É" -> "é" [] c = "Ê" -> "ê" [] c = "Ë" -> "ë"
    [] c = "Ì" -> "ì" [] c = "Í" -> "í" [] c = "Î" -> "î" [] c = "Ï" -> "ï"
    [] c = "Ð" -> "ð" [] c = "Ñ" -> "ñ" [] c = "Ò" -> "ò" [] c = "Ó" -> "ó"
    [] c = "Ô" -> "ô" [] c = "Õ" -> "õ" [] c = "Ö" -> "ö" [] c = "Ø" -> "ø"
    [] c = "Ù" -> "ù" [] c = "Ú" -> "ú" [] c = "Û" -> "û" [] c = "Ü" -> "ü"
    [] c = "Ý" -> "ý" [] c = "Þ" -> "þ"
    [] OTHER -> c

\* s.lower()
lower(s) == concat([i \in 1..Len(s) |-> LowerChar(Char(s, i))], 1, Len(s))

startswith(s, p) == Len(s) >= Len(p) /\ SubSeq(s, 1, Len(p)) = p

endswith(s, p) == Len(s) >= Len(p) /\ SubSeq(s, Len(s) - Len(p) + 1, Len(s)) = p

\* "sub in s"
contains(s, sub) ==
  \E i \in 1..(Len(s) - Len(sub) + 1) : SubSeq(s, i, i + Len(sub) - 1) = sub

\* the places of the one-character string c in s
Places(s, c) == {i \in 1..Len(s) : Char(s, i) = c}

\* index of the first occurrence of c in s, 0 if none
find(s, c) == IF Places(s, c) = {} THEN 0 ELSE Min(Places(s, c))

lstripChars(s, cs) ==
  LET keep == {i \in 1..Len(s) : Char(s, i) \notin cs}
  IN IF keep = {} THEN "" ELSE SubSeq(s, Min(keep), Len(s))

rstripChars(s, cs) ==
  LET keep == {i \in 1..Len(s) : Char(s, i) \notin cs}
  IN IF keep = {} THEN "" ELSE SubSeq(s, 1, Max(keep))

\* s.strip()
strip(s) == lstripChars(rstripChars(s, Whitespace), Whitespace)

\* s.rstrip('.') and s.lstrip('.')
rstrip(s, c) == rstripChars(s, {c})

lstrip(s, c) == lstripChars(s, {c})

\* s.split(c): every segment between occurrences of c, empty ones included
split(s, c) ==
  LET at == Places(s, c)
      n == Cardinality(at)
  IN [k \in 1..(n + 1) |->
        SubSeq(s, IF k = 1 THEN 1 ELSE Kth(at, k - 1) + 1,
                  IF k = n + 1 THEN Len(s) ELSE Kth(at, k) - 1)]

\* s.split(c, 1): at most one split, at the first occurrence of c
split1(s, c) ==
  LET i == find(s, c)
  IN IF i = 0 THEN <<s>> ELSE <<SubSeq(s, 1, i - 1), SubSeq(s, i + 1, Len(s))>>

\* s.split(): runs of whitespace separate the tokens, no empty token
splitWs(s) ==
  LET word(i) == i >= 1 /\ i <= Len(s) /\ ~IsSpace(Char(s, i))
      starts == {i \in 1..Len(s) : word(i) /\ ~word(i - 1)}
      ends == {i \in 1..Len(s) : word(i) /\ ~word(i + 1)}
  IN [k \in 1..Cardinality(starts) |-> SubSeq(s, Kth(starts, k), Kth(ends, k))]

\* sep.join(parts)
RECURSIVE joinFrom(_, _, _, _)
joinFrom(sep, parts, i, acc) ==
  IF i > Len(parts) THEN acc
  ELSE joinFrom(sep, parts, i + 1, (IF i = 1 THEN acc ELSE acc \o sep) \o parts[i])

join(sep, parts) == joinFrom(sep, parts, 1, "")

Digits == <<"0", "1", "2", "3", "4", "5", "6", "7", "8", "9">>

IsDigit(c) == \E d \in 1..10 : Digits[d] = c

DigitVal(c) == (CHOOSE d \in 1..10 : Digits[d] = c) - 1

\* str(n) for an integer n
RECURSIVE strNat(_)
strNat(n) == IF n < 10 THEN Digits[n + 1] ELSE strNat(n \div 10) \o Digits[(n % 10) + 1]

str(n) == IF n < 0 THEN "-" \o strNat(0 - n) ELSE strNat(n)

\* int(s): [ok |-> FALSE] stands for ValueError.  Surrounding whitespace, one
\* sign, decimal digits and single underscores between digits are accepted.
RECURSIVE intDigits(_, _, _, _)
intDigits(s, i, acc, prevDigit) ==
  IF i > Len(s) THEN [ok |-> prevDigit, val |-> acc]
  ELSE IF IsDigit(Char(s, i))
       THEN intDigits(s, i + 1, acc * 10 + DigitVal(Char(s, i)), TRUE)
  ELSE IF Char(s, i) = "_" /\ prevDigit
       THEN intDigits(s, i + 1, acc, FALSE)
  ELSE [ok |-> FALSE, val |-> 0]

\* the whitespace int() skips around the number: the characters of Whitespace
\* but the separators U+001C..U+001F
IntWhitespace == Whitespace \ {"", "", "", ""}

\* sys.get_int_max_str_digits(): int() raises ValueError for more digits
INT_MAX_STR_DIGITS == 4300

int(s0) ==
  LET s == lstripChars(rstripChars(s0, IntWhitespace), IntWhitespace)
      signed == Len(s) > 0 /\ Char(s, 1) \in {"+", "-"}
      body == IF signed THEN SubSeq(s, 2, Len(s)) ELSE s
      digits == Cardinality({i \in 1..Len(body) : IsDigit(Char(body, i))})
      r == IF digits > INT_MAX_STR_DIGITS THEN [ok |-> FALSE, val |-> 0]
           ELSE intDigits(body, 1, 0, FALSE)
  IN IF r.ok /\ signed /\ Char(s, 1) = "-" THEN [ok |-> TRUE, val |-> 0 - r.val]
     ELSE r

(***************************************************************************)
(* Constants of the scanner (constants.py)                                 *)
(***************************************************************************)
WEIGHTS == [mx |-> 10, spf |-> 25, dkim |-> 25, dmarc |-> 40]

LETTER_GRADES ==
  << <<95, "A+">>, <<90, "A">>, <<80, "B">>, <<70, "C">>, <<60, "D">>,
     <<50, "E">>, <<0, "F">> >>

M365_MX_SUFFIX == ".mail.protection.outlook.com"

COMMON_DKIM_SELECTORS ==
  << "selector1", "selector2", "google", "default", "dkim", "mail", "k1",
     "s1", "s2", "smtp", "mandrill", "mxvault", "everlytickey1",
     "everlytickey2" >>

M365_DKIM_SELECTORS == << "selector1", "selector2" >>

VALID_SPF_MECHANISMS ==
  << "all", "include", "a", "mx", "ptr", "ip4", "ip6", "exists", "redirect", "exp" >>

\* a lookup list that also counts the address mechanisms
SPF_LOOKUP_MECHANISMS_with_ip ==
  <<"include", "a", "mx", "ptr", "exists", "redirect", "ip4", "ip6">>

SPF_LOOKUP_MECHANISMS == << "include", "a", "mx", "ptr", "exists", "redirect" >>

InList(x, list) == \E i \in 1..Len(list) : list[i] = x

(***************************************************************************)
(* DNS: a zone maps (record type, name) to the outcome of the query.  An   *)
(* outcome is an answer with its resource records, or one of the failures  *)
(* that DNSResolver._query catches.  A TXT rdata is a sequence of byte     *)
(* strings; utf8 = FALSE marks bytes that are not valid UTF-8.             *)
(***************************************************************************)
FailureKinds == {"NoAnswer", "NXDOMAIN", "NoNameservers", "Timeout", "YXDOMAIN", "Error"}

Answer(rrs) == [kind |-> "answer", rrs |-> rrs]

Failure(kind) == [kind |-> kind, rrs |-> <<>>]

Bytes(s) == [utf8 |-> TRUE, s |-> s]

BadBytes(s) == [utf8 |-> FALSE, s |-> s]

\* the outcome of the query (rdtype, name) in zone z; names the zone does not
\* list do not exist
Lookup(z, rdtype, name) == DictGet(z[rdtype], name, Failure("NXDOMAIN"))

\* DNSResolver._query: the answer, or None for every failure
_query(z, name, rdtype) ==
  LET out == Lookup(z, rdtype, name)
  IN IF out.kind = "answer" THEN Some(out.rrs) ELSE None

\* sorted(records, key=lambda x: x[0]): stable insertion by priority
RECURSIVE insertByPriority(_, _, _)
insertByPriority(sorted, rec, i) ==
  IF i > Len(sorted) THEN Append(sorted, rec)
  ELSE IF rec[1] < sorted[i][1]
       THEN SubSeq(sorted, 1, i - 1) \o <<rec>> \o SubSeq(sorted, i, Len(sorted))
       ELSE insertByPriority(sorted, rec, i + 1)

RECURSIVE sortedByPriority(_, _, _)
sortedByPriority(records, i, acc) ==
  IF i > Len(records) THEN acc
  ELSE sortedByPriority(records, i + 1, insertByPriority(acc, records[i], 1))

\* resolve_mx that keeps the records in the order of the answer
resolve_mx_unsorted(z, domain) ==
  LET answer == _query(z, domain, "MX")
  IN IF answer = None THEN <<>>
     ELSE [i \in 1..Len(answer[1]) |->
             <<answer[1][i].preference, rstrip(answer[1][i].exchange, ".")>>]

\* DNSResolver.resolve_mx: (priority, host) pairs, ascending priority
resolve_mx(z, domain) ==
  LET answer == _query(z, domain, "MX")
  IN IF answer = None THEN <<>>
     ELSE LET rr == answer[1]
              records == [i \in 1..Len(rr) |->
                            <<rr[i].preference, rstrip(rr[i].exchange, ".")>>]
          IN sortedByPriority(records, 1, <<>>)

\* ''.join(part.decode('utf-8') ...) for one rdata
RECURSIVE decodeJoin(_, _, _)
decodeJoin(strings, i, acc) ==
  IF i > Len(strings) THEN acc ELSE decodeJoin(strings, i + 1, acc \o strings[i].s)

\* DNSResolver.resolve_txt: raised = TRUE is the UnicodeDecodeError that
\* part.decode raises outside of _query's try block
resolve_txt(z, domain) ==
  LET answer == _query(z, domain, "TXT")
  IN IF answer = None THEN [raised |-> FALSE, val |-> <<>>]
     ELSE LET rr == answer[1]
          IN IF \E i \in 1..Len(rr) : \E j \in 1..Len(rr[i]) : ~rr[i][j].utf8
             THEN [raised |-> TRUE, val |-> <<>>]
             ELSE [raised |-> FALSE,
                   val |-> [i \in 1..Len(rr) |-> decodeJoin(rr[i], 1, "")]]

resolve_a(z, domain) ==
  LET answer == _query(z, domain, "A") IN IF answer = None THEN <<>> ELSE answer[1]

resolve_aaaa(z, domain) ==
  LET answer == _query(z, domain, "AAAA") IN IF answer = None THEN <<>> ELSE answer[1]

\* DNSResolver.resolve_cname: the first target without its trailing dot
resolve_cname(z, domain) ==
  LET answer == _query(z, domain, "CNAME")
  IN IF answer = None \/ answer[1] = <<>> THEN None
     ELSE Some(rstrip(answer[1][1], "."))

\* host_exists that asks for A records only
host_exists_a_only(z, hostname, asked_a) ==
  [ended |-> TRUE, exists |-> resolve_a(z, hostname) # <<>>]

\* DNSResolver.host_exists, one blocking query at a time: the A query first
\* (asked_a = FALSE), which ends the call when it gives records, then the
\* AAAA query (asked_a = TRUE).  ended tells whether the call has returned
host_exists(z, hostname, asked_a) ==
  IF ~asked_a
  THEN IF resolve_a(z, hostname) # <<>>
       THEN [ended |-> TRUE, exists |-> TRUE]
       ELSE [ended |-> FALSE, exists |-> FALSE]
  ELSE [ended |-> TRUE, exists |-> Len(resolve_aaaa(z, hostname)) > 0]

\* the records of a list that satisfy test, in order
RECURSIVE filterFrom(_, _, _, _)
filterFrom(list, test(_), i, acc) ==
  IF i > Len(list) THEN acc
  ELSE filterFrom(list, test, i + 1, IF test(list[i]) THEN Append(acc, list[i]) ELSE acc)

IsSpfRecord(record) == startswith(lower(record), "v=spf1")

\* IsDmarcRecord looking for the version tag anywhere in the record
IsDmarcRecord_anywhere(record) == contains(lower(record), "v=dmarc1")

IsDmarcRecord(record) == startswith(lower(record), "v=dmarc1")

IsDkimRecord(record) ==
  LET l == lower(record)
  IN contains(l, "v=dkim1") \/ contains(l, "k=") \/ contains(l, "p=")

FirstOrNone(list) == IF list = <<>> THEN None ELSE Some(list[1])

\* get_spf_record without the prefix filter: the first TXT record of the domain
get_spf_record_unfiltered(z, domain) ==
  LET txt == resolve_txt(z, domain)
  IN [raised |-> txt.raised, val |-> FirstOrNone(txt.val)]

\* DNSResolver.get_spf_record
get_spf_record(z, domain) ==
  LET txt == resolve_txt(z, domain)
  IN [raised |-> txt.raised, val |-> FirstOrNone(filterFrom(txt.val, IsSpfRecord, 1, <<>>))]

\* get_dmarc_record that reports only the first DMARC record it found
get_dmarc_record_first_only(z, domain) ==
  LET txt == resolve_txt(z, "_dmarc." \o domain)
      dmarc_records == filterFrom(txt.val, IsDmarcRecord, 1, <<>>)
  IN [raised |-> txt.raised, first |-> FirstOrNone(dmarc_records),
      all |-> IF dmarc_records = <<>> THEN <<>> ELSE <<dmarc_records[1]>>]

\* DNSResolver.get_dmarc_record
get_dmarc_record(z, domain) ==
  LET txt == resolve_txt(z, "_dmarc." \o domain)
      dmarc_records == filterFrom(txt.val, IsDmarcRecord, 1, <<>>)
  IN [raised |-> txt.raised, first |-> FirstOrNone(dmarc_records), all |-> dmarc_records]

\* DNSResolver.get_dkim_record, one blocking query at a time: the CNAME query
\* first (txt_name = None), which settles the name the TXT query asks for,
\* then the TXT query of that name.  ended tells whether the call has returned
get_dkim_record(z, domain, selector, txt_name) ==
  LET dkim_domain == selector \o "._domainkey." \o domain
  IN IF txt_name = None
     THEN LET cname == resolve_cname(z, dkim_domain)
          IN [ended |-> FALSE, raised |-> FALSE, val |-> None,
              txt_name |-> IF cname # None /\ cname[1] # "" THEN cname ELSE Some(dkim_domain)]
     ELSE LET txt == resolve_txt(z, txt_name[1])
          IN [ended |-> TRUE, raised |-> txt.raised,
              val |-> FirstOrNone(filterFrom(txt.val, IsDkimRecord, 1, <<>>)),
              txt_name |-> None]

\* DNSResolver.get_dkim_cname
get_dkim_cname(z, domain, selector) ==
  resolve_cname(z, selector \o "._domainkey." \o domain)

(***************************************************************************)
(* Provider detector                                                       *)
(***************************************************************************)
MX_PATTERNS ==
  << <<M365_MX_SUFFIX, "microsoft365">>,
     <<".google.com", "google_workspace">>,
     <<".googlemail.com", "google_workspace">>,
     <<"aspmx.l.google.com", "google_workspace">> >>

MatchesPattern(hostname_lower, pattern) ==
  endswith(hostname_lower, pattern) \/ hostname_lower = lstrip(pattern, ".")

RECURSIVE detectFrom(_, _, _)
detectFrom(mx_records, i, j) ==
  IF i > Len(mx_records) THEN "unknown"
  ELSE IF j > Len(MX_PATTERNS) THEN detectFrom(mx_records, i + 1, 1)
  ELSE IF MatchesPattern(lower(mx_records[i][2]), MX_PATTERNS[j][1])
       THEN MX_PATTERNS[j][2]
       ELSE detectFrom(mx_records, i, j + 1)

\* ProviderDetector.detect
detect(mx_records) == IF mx_records = <<>> THEN "unknown" ELSE detectFrom(mx_records, 1, 1)

(***************************************************************************)
(* SPF parser (SPFChecker._parse_spf)                                      *)
(***************************************************************************)
SpfParseInit ==
  [mechanisms |-> <<>>, terminal |-> None, lookup_count |-> 0,
   syntax_errors |-> <<>>, duplicates |-> <<>>, has_ptr |-> FALSE,
   hosts_to_check |-> <<>>, include_count |-> 0]

Truthy(opt) == opt # None /\ opt[1] # ""

\* one iteration of the loop over parts[1:]; st is [result, seen_mechanisms]
ParseSpfPart(st, part0) ==
  LET result == st.result
      part_lower0 == lower(part0)
  IN IF part_lower0 \in {"-all", "~all", "+all", "?all"}
     THEN [st EXCEPT !.result.terminal = Some(part_lower0)]
     ELSE IF part_lower0 = "all"
     THEN [st EXCEPT !.result.terminal = Some("+all")]
     ELSE
       LET hasQual == Char(part0, 1) \in {"+", "-", "~", "?"}
           qualifier == IF hasQual THEN Char(part0, 1) ELSE "+"
           part == IF hasQual THEN SubSeq(part0, 2, Len(part0)) ELSE part0
           nv == IF find(part, ":") # 0
                   THEN LET p == split1(part, ":") IN [name |-> p[1], value |-> Some(p[2])]
                 ELSE IF find(part, "=") # 0
                   THEN LET p == split1(part, "=") IN [name |-> p[1], value |-> Some(p[2])]
                 ELSE IF find(part, "/") # 0
                   THEN [name |-> split(part, "/")[1], value |-> Some(part)]
                 ELSE [name |-> part, value |-> None]
           mech_name == nv.name
           mech_value == nv.value
           mech_name_lower == lower(mech_name)
       IN IF ~InList(mech_name_lower, VALID_SPF_MECHANISMS)
          THEN [st EXCEPT !.result.syntax_errors =
                             Append(@, "Unknown mechanism: " \o mech_name)]
          ELSE
            LET mech_key == IF Truthy(mech_value)
                            THEN mech_name_lower \o ":" \o mech_value[1]
                            ELSE mech_name_lower
                counted == InList(mech_name_lower, SPF_LOOKUP_MECHANISMS)
            IN [result |->
                  [result EXCEPT
                     !.mechanisms = Append(@, [qualifier |-> qualifier,
                                               mechanism |-> mech_name_lower,
                                               value |-> mech_value]),
                     !.duplicates = IF mech_key \in st.seen_mechanisms
                                    THEN Append(@, mech_key) ELSE @,
                     !.lookup_count = IF counted THEN @ + 1 ELSE @,
                     !.hosts_to_check =
                        IF counted /\ Truthy(mech_value) /\ mech_name_lower \in {"a", "mx"}
                        THEN Append(@, mech_value[1]) ELSE @,
                     !.has_ptr = IF mech_name_lower = "ptr" THEN TRUE ELSE @,
                     !.include_count = IF mech_name_lower = "include" THEN @ + 1 ELSE @],
                seen_mechanisms |-> st.seen_mechanisms \cup {mech_key}]

\* a parse loop that ends at the first unknown mechanism
RECURSIVE parseSpfFromStopping(_, _, _)
parseSpfFromStopping(parts, i, st) ==
  IF i > Len(parts) \/ st.result.syntax_errors # <<>> THEN st.result
  ELSE parseSpfFromStopping(parts, i + 1, ParseSpfPart(st, parts[i]))

RECURSIVE parseSpfFrom(_, _, _)
parseSpfFrom(parts, i, st) ==
  IF i > Len(parts) THEN st.result
  ELSE parseSpfFrom(parts, i + 1, ParseSpfPart(st, parts[i]))

\* SPFChecker._parse_spf
_parse_spf(spf) ==
  LET parts == splitWs(spf)
  IN IF parts = <<>> \/ ~startswith(lower(parts[1]), "v=spf1")
     THEN [SpfParseInit EXCEPT !.syntax_errors = <<"Missing or invalid v=spf1">>]
     ELSE parseSpfFrom(parts, 2, [result |-> SpfParseInit, seen_mechanisms |-> {}])

(***************************************************************************)
(* DMARC parser (DMARCChecker._parse_dmarc, _parse_uris)                   *)
(***************************************************************************)
\* a parse that keeps the first value of a repeated tag
RECURSIVE parseDmarcFromFirstWins(_, _, _)
parseDmarcFromFirstWins(parts, i, result) ==
  IF i > Len(parts) THEN result
  ELSE LET part == strip(parts[i])
           tv == split1(part, "=")
       IN IF find(part, "=") # 0 /\ lower(strip(tv[1])) \notin DOMAIN result
          THEN parseDmarcFromFirstWins(parts, i + 1,
                 DictSet(result, lower(strip(tv[1])), strip(tv[2])))
          ELSE parseDmarcFromFirstWins(parts, i + 1, result)

RECURSIVE parseDmarcFrom(_, _, _)
parseDmarcFrom(parts, i, result) ==
  IF i > Len(parts) THEN result
  ELSE LET part == strip(parts[i])
       IN IF find(part, "=") # 0
          THEN LET tv == split1(part, "=")
               IN parseDmarcFrom(parts, i + 1,
                                 DictSet(result, lower(strip(tv[1])), strip(tv[2])))
          ELSE parseDmarcFrom(parts, i + 1, result)

\* DMARCChecker._parse_dmarc: tag -> value
_parse_dmarc(dmarc) == parseDmarcFrom(split(dmarc, ";"), 1, EmptyDict)

IsMailto(uri) == startswith(lower(uri), "mailto:")

\* DMARCChecker._parse_uris: the mailto: URIs of a comma-separated list
_parse_uris(uri_string) ==
  IF uri_string = "" THEN <<>>
  ELSE LET raw == split(uri_string, ",")
           uris == [i \in 1..Len(raw) |-> strip(raw[i])]
       IN filterFrom(uris, IsMailto, 1, <<>>)

(***************************************************************************)
(* DKIM key length (DKIMChecker._extract_key_length)                       *)
(***************************************************************************)
\* the character class [A-Za-z0-9+/]
IsB64Data(c) ==
  \/ c \in {"+", "/"}
  \/ IsDigit(c)
  \/ c \in {"a", "b", "c", "d", "e", "f", "g", "h", "i", "j", "k", "l", "m",
            "n", "o", "p", "q", "r", "s", "t", "u", "v", "w", "x", "y", "z"}
  \/ c \in {"A", "B", "C", "D", "E", "F", "G", "H", "I", "J", "K", "L", "M",
            "N", "O", "P", "Q", "R", "S", "T", "U", "V", "W", "X", "Y", "Z"}

\* the character class [A-Za-z0-9+/=]
IsKeyChar(c) == IsB64Data(c) \/ c = "="

\* re.search(r'p=([A-Za-z0-9+/=]+)', s): group 1 of the leftmost match, the
\* longest run of key characters after the first "p=" that has one
searchKey(s) ==
  LET at == {i \in 1..(Len(s) - 2) :
               SubSeq(s, i, i + 1) = "p=" /\ IsKeyChar(Char(s, i + 2))}
  IN IF at = {} THEN None
     ELSE LET from == Min(at) + 2
              stop == {j \in from..Len(s) : ~IsKeyChar(Char(s, j))}
          IN Some(SubSeq(s, from, IF stop = {} THEN Len(s) ELSE Min(stop) - 1))

\* base64.b64decode(s) on a string of key characters (binascii.a2b_base64, not
\* strict): the number of decoded bytes, or ok = FALSE for binascii.Error.
\* When the loop reaches character i, quad_pos is the number of data characters
\* before i modulo 4, and pads is the length of the run of "=" that ends before i
\* (counted only while quad_pos >= 2).  The loop ends at the first "=" with
\* quad_pos >= 2 and quad_pos + pads + 1 >= 4.
b64decode(s) ==
  LET eq == Places(s, "=")
      data(i) == (i - 1) - Cardinality({e \in eq : e < i})
      quad_pos(i) == data(i) % 4
      pads(i) == IF \E j \in 1..(i - 1) : j \notin eq
                 THEN (i - 1) - Max({j \in 1..(i - 1) : j \notin eq})
                 ELSE i - 1
      done == {i \in eq : quad_pos(i) >= 2 /\ quad_pos(i) + pads(i) + 1 >= 4}
      nbytes(d) == 3 * (d \div 4) + (IF d % 4 >= 2 THEN (d % 4) - 1 ELSE 0)
  IN IF done # {} THEN [ok |-> TRUE, len |-> nbytes(data(Min(done)))]
     ELSE [ok |-> (Len(s) - Cardinality(eq)) % 4 = 0,
           len |-> nbytes(Len(s) - Cardinality(eq))]

\* _extract_key_length without the snap into 2048 / 1024 / 512
_extract_key_length_raw(dkim_record) ==
  LET match == searchKey(dkim_record)
  IN IF match = None THEN 0
     ELSE IF match[1] = "" THEN 0
     ELSE LET key_bytes == b64decode(match[1])
          IN IF ~key_bytes.ok THEN 0 ELSE key_bytes.len * 8

\* DKIMChecker._extract_key_length
_extract_key_length(dkim_record) ==
  LET match == searchKey(dkim_record)
  IN IF match = None THEN 0
     ELSE IF match[1] = "" THEN 0
     ELSE LET key_bytes == b64decode(match[1])
              key_length == key_bytes.len * 8
          IN IF ~key_bytes.ok THEN 0
             ELSE IF key_length >= 2000 THEN 2048
             ELSE IF key_length >= 1000 THEN 1024
             ELSE IF key_length >= 500 THEN 512
             ELSE key_length

(***************************************************************************)
(* Grades (scoring_engine.py)                                              *)
(***************************************************************************)
RECURSIVE gradeFrom(_, _)
gradeFrom(score, i) ==
  IF i > Len(LETTER_GRADES) THEN "F"
  ELSE IF score >= LETTER_GRADES[i][1] THEN LETTER_GRADES[i][2]
  ELSE gradeFrom(score, i + 1)

\* calculate_grade comparing with > where the code compares with >=
RECURSIVE gradeFromAbove(_, _)
gradeFromAbove(score, i) ==
  IF i > Len(LETTER_GRADES) THEN "F"
  ELSE IF score > LETTER_GRADES[i][1] THEN LETTER_GRADES[i][2]
  ELSE gradeFromAbove(score, i + 1)

calculate_grade_above(score) == gradeFromAbove(score, 1)

\* calculate_grade(score), scoring_engine.py lines 14-27
calculate_grade(score) == gradeFrom(score, 1)

get_grade_color(grade) ==
  CASE grade = "A+" -> "#00c853" [] grade = "A" -> "#00e676"
    [] grade = "B" -> "#2979ff" [] grade = "C" -> "#ffea00"
    [] grade = "D" -> "#ff9100" [] grade = "E" -> "#ff6d00"
    [] grade = "F" -> "#ff1744" [] OTHER -> "#666"

(***************************************************************************)
(* CheckResult and ScanResult (base.py, scoring_engine.py)                 *)
(***************************************************************************)
MX_max_points == 10
SPF_max_points == 25
DKIM_max_points == 25
DMARC_max_points == 40

MX_POINTS_MX_EXISTS == 5
MX_POINTS_ALL_RESOLVE == 5

SPF_POINTS_EXISTS == 5
SPF_POINTS_SYNTAX_VALID == 5
SPF_POINTS_LOOKUP_LIMIT == 2
SPF_POINTS_HOSTS_RESOLVE == 3
SPF_POINTS_TERMINAL_ALL == 6
\* a soft-fail terminal that costs points
SPF_PENALTY_SOFTFAIL == 0 - 3

SPF_POINTS_TERMINAL_SOFTFAIL == 3
SPF_POINTS_NO_PTR == 4

DKIM_POINTS_SELECTOR_EXISTS == 5
DKIM_POINTS_KEY_2048 == 8
DKIM_POINTS_KEY_1024 == 4
DKIM_POINTS_M365_BOTH == 8
DKIM_POINTS_M365_ONE == 4
\* rotation points that would let the control reach its declared maximum
DKIM_POINTS_MULTI_SELECTOR_to_max ==
  DKIM_max_points - DKIM_POINTS_SELECTOR_EXISTS - DKIM_POINTS_KEY_2048

DKIM_POINTS_MULTI_SELECTOR == 4

DMARC_POINTS_EXISTS == 10
DMARC_POINTS_REJECT == 15
DMARC_POINTS_QUARANTINE == 10
DMARC_POINTS_RUA == 5
DMARC_POINTS_STRICT_BOTH == 5
DMARC_POINTS_STRICT_ONE == 3
DMARC_POINTS_FO == 3
DMARC_POINTS_PCT_100 == 2
DMARC_POINTS_PCT_PARTIAL == 1
DMARC_POINTS_SP == 2

SCORE_PROFILE_VERSION == "1.0"

Controls == <<"mx", "spf", "dkim", "dmarc">>

\* BaseChecker._create_result
_create_result(name, max_points) ==
  [control |-> name, points |-> 0, max_points |-> max_points, messages |-> <<>>,
   raw_records |-> <<>>, parsed_data |-> EmptyDict, remediation |-> <<>>]

add_message(r, level, text) ==
  [r EXCEPT !.messages = Append(@, [level |-> level, text |-> text])]

add_remediation(r, text) == [r EXCEPT !.remediation = Append(@, text)]

add_points(r, n) == [r EXCEPT !.points = @ + n]

set_parsed(r, k, v) == [r EXCEPT !.parsed_data = DictSet(@, k, v)]

\* ScanResult.__init__
ScanResult(domain) ==
  [domain |-> domain, score |-> 0, max_score |-> 100, grade |-> "F",
   grade_color |-> "#ff1744", score_version |-> SCORE_PROFILE_VERSION,
   provider |-> "unknown", checks |-> EmptyDict, all_remediation |-> <<>>]

\* add_check_result that puts the remediation of a result before the others
add_check_result_prepending(sr, r) ==
  [sr EXCEPT !.checks = DictSet(@, r.control, r),
             !.all_remediation = r.remediation \o @]

\* ScanResult.add_check_result
add_check_result(sr, r) ==
  [sr EXCEPT !.checks = DictSet(@, r.control, r),
             !.all_remediation = @ \o r.remediation]

RECURSIVE sumPoints(_, _)
sumPoints(checks, keys) ==
  IF keys = {} THEN 0
  ELSE LET k == CHOOSE x \in keys : TRUE
       IN checks[k].points + sumPoints(checks, keys \ {k})

RECURSIVE sumMaxPoints(_, _)
sumMaxPoints(checks, keys) ==
  IF keys = {} THEN 0
  ELSE LET k == CHOOSE x \in keys : TRUE
       IN checks[k].max_points + sumMaxPoints(checks, keys \ {k})

\* calculate_final_score summing max_points where the code sums points
calculate_final_score_of_max(sr) ==
  LET score == sumMaxPoints(sr.checks, DOMAIN sr.checks)
      grade == calculate_grade(score)
  IN [sr EXCEPT !.score = score, !.grade = grade, !.grade_color = get_grade_color(grade)]

\* ScanResult.calculate_final_score
calculate_final_score(sr) ==
  LET score == sumPoints(sr.checks, DOMAIN sr.checks)
      grade == calculate_grade(score)
  IN [sr EXCEPT !.score = score, !.grade = grade, !.grade_color = get_grade_color(grade)]

(***************************************************************************)
(* State                                                                   *)
(***************************************************************************)
VARIABLES
  dns,      \* the zone: what every DNS query returns (fixed during a run)
  pc,       \* position of the running scan in ScoringEngine.scan
  scanNo,   \* number of the running scan of the domain
  prev,     \* outcomes of the finished scans: <<ScanResult>>, or None for a failed one
  result,   \* the ScanResult that scan() is building
  provider, \* the provider detected by the engine (scan's local)
  cur,      \* the CheckResult that the running checker is building
  loc,      \* other locals of the running checker
  call      \* a direct call of one function: [fn, arg, ret]

vars == <<dns, pc, scanNo, prev, result, provider, cur, loc, call>>

\* the scanned domain
Domain == "ex.com"

\* number of scans of the domain in a run
MaxScans == 2

NoCheck == EmptyDict
NoLocals == EmptyDict
NoCall == [fn |-> "none", arg |-> None, ret |-> None]

scanVars == <<dns, scanNo, prev, call>>

(***************************************************************************)
(* ScoringEngine.scan: provider detection                                  *)
(***************************************************************************)
\* scan(), lines 130-134: the engine's own MX query and the provider
EngineDetect ==
  /\ pc = "scan"
  /\ LET mx_records == resolve_mx(dns, Domain)
     IN /\ provider' = detect(mx_records)
        /\ result' = [ScanResult(Domain) EXCEPT !.provider = detect(mx_records)]
  /\ pc' = "mx_check"
  /\ UNCHANGED <<scanVars, cur, loc>>

\* the engine stopping after the MX checker
AfterReturnStopAtMx(p) ==
  CASE p = "mx_ret" -> "finalize"
    [] p = "spf_ret" -> "dkim_check"
    [] p = "dkim_ret" -> "dmarc_check"
    [] p = "dmarc_ret" -> "finalize"

\* scan(): add_check_result after a checker returned, then the next checker
AfterReturn(p) ==
  CASE p = "mx_ret" -> "spf_check"
    [] p = "spf_ret" -> "dkim_check"
    [] p = "dkim_ret" -> "dmarc_check"
    [] p = "dmarc_ret" -> "finalize"

AddCheckResult ==
  /\ pc \in {"mx_ret", "spf_ret", "dkim_ret", "dmarc_ret"}
  /\ result' = add_check_result(result, cur)
  /\ pc' = AfterReturn(pc)
  /\ cur' = NoCheck
  /\ loc' = NoLocals
  /\ UNCHANGED <<scanVars, provider>>

(***************************************************************************)
(* MXChecker.check                                                         *)
(***************************************************************************)
\* the thread that runs scan() and the check() of every checker
ScanThread == "scan"

\* the k-th thread of the pool of line 69, k in 1..MX_max_workers: the pool
\* never has more threads, and a thread whose lookup has ended takes another
WorkerThread(k) == "worker-" \o str(k)

\* get_resolver(): the DNSResolver kept in the thread-local storage of the
\* calling thread; an instance is identified by the thread that owns it
get_resolver(thread) == [owner |-> thread]

\* ThreadPoolExecutor(max_workers=5)
MX_max_workers == 5

\* the submitted lookups a pool worker is executing: the pool takes the work
\* items in the order of submission, and a worker takes the next item when
\* its own has ended, so at most MX_max_workers run at a time.  loc.done maps
\* every ended lookup to its outcome
RunningLookups ==
  IF pc = "mx_lookup"
  THEN {i \in 1..Len(loc.mx_records) :
          /\ i \notin DOMAIN loc.done
          /\ i <= MX_max_workers + Cardinality(DOMAIN loc.done)}
  ELSE {}

\* lines 41-60: the checker's MX query and the existence rule; line 70 submits
\* one lookup per record
MXCheck ==
  /\ pc = "mx_check"
  /\ LET mx_records == resolve_mx(dns, Domain)
         r0 == _create_result("mx", MX_max_points)
         r1 == [r0 EXCEPT
                  !.raw_records = [i \in 1..Len(mx_records) |->
                                     str(mx_records[i][1]) \o " " \o mx_records[i][2]],
                  !.parsed_data = DictSet(@, "records",
                                     [i \in 1..Len(mx_records) |->
                                        [priority |-> mx_records[i][1],
                                         host |-> mx_records[i][2]]])]
     IN IF mx_records # <<>>
        THEN /\ cur' = add_message(add_points(r1, MX_POINTS_MX_EXISTS), "success",
                          "Found " \o str(Len(mx_records)) \o " MX record(s)")
             /\ loc' = [mx_records |-> mx_records, pending |-> 1..Len(mx_records),
                        asked_a |-> EmptyDict, done |-> EmptyDict,
                        resolved |-> <<>>, unresolved |-> <<>>,
                        resolver |-> get_resolver(ScanThread)]
             /\ pc' = "mx_lookup"
        ELSE /\ cur' = add_remediation(add_message(r1, "error", "No MX records found"),
                          "Add MX records to enable email delivery")
             /\ loc' = NoLocals
             /\ pc' = "mx_ret"
  /\ UNCHANGED <<scanVars, result, provider>>

\* the pool threads that are in the middle of a lookup: loc.asked_a maps the
\* lookups between their A query and their AAAA query to the thread that runs
\* them
BusyThreads ==
  IF pc = "mx_lookup" THEN {loc.asked_a[j] : j \in DOMAIN loc.asked_a} ELSE {}

\* the threads that can run the i-th lookup: the thread that has begun it, or
\* else any thread of the pool that is not in the middle of another lookup
LookupThreads(i) ==
  IF i \in DOMAIN loc.asked_a THEN {loc.asked_a[i]} ELSE (1..MX_max_workers) \ BusyThreads

\* lines 66-67 and host_exists: the pool thread t runs the i-th lookup, one
\* blocking query per step: the A query, and the AAAA query when the A query
\* gave nothing.  The thread is free for another lookup when this one ended
check_host(i, t) ==
  /\ pc = "mx_lookup"
  /\ i \in RunningLookups
  /\ t \in LookupThreads(i)
  /\ LET q == host_exists(dns, loc.mx_records[i][2], i \in DOMAIN loc.asked_a)
     IN loc' = IF q.ended
               THEN [loc EXCEPT !.done = DictSet(@, i, q.exists),
                                !.asked_a = [j \in DOMAIN @ \ {i} |-> @[j]]]
               ELSE [loc EXCEPT !.asked_a = DictSet(@, i, t)]
  /\ UNCHANGED <<scanVars, pc, result, provider, cur>>

\* the ended lookups whose future the loop of line 71 has not yet collected
EndedLookups == IF pc = "mx_lookup" THEN loc.pending \cap DOMAIN loc.done ELSE {}

\* lines 71-76: as_completed yields one of the ended futures, whichever
MXComplete(i) ==
  /\ pc = "mx_lookup"
  /\ i \in EndedLookups
  /\ LET host == loc.mx_records[i][2]
         exists == loc.done[i]
     IN loc' = [loc EXCEPT
                  !.pending = @ \ {i},
                  !.resolved = IF exists THEN Append(@, host) ELSE @,
                  !.unresolved = IF exists THEN @ ELSE Append(@, host)]
  /\ UNCHANGED <<scanVars, pc, result, provider, cur>>

\* an all-resolve rule that is content with one host that resolves
MXScoreLenient ==
  /\ pc = "mx_lookup"
  /\ loc.pending = {}
  /\ LET r1 == set_parsed(set_parsed(cur, "resolved_hosts", loc.resolved),
                          "unresolved_hosts", loc.unresolved)
     IN cur' = IF loc.resolved # <<>>
               THEN add_message(add_points(r1, MX_POINTS_ALL_RESOLVE), "success",
                                "All MX hosts resolve correctly")
               ELSE add_remediation(
                      add_message(r1, "error",
                         "Dangling MX record(s): " \o join(", ", loc.unresolved)),
                      "Fix or remove dangling MX records: " \o join(", ", loc.unresolved))
  /\ pc' = "mx_ret"
  /\ UNCHANGED <<scanVars, result, provider, loc>>

\* lines 78-93: every lookup was collected; the all-resolve rule
MXScore ==
  /\ pc = "mx_lookup"
  /\ loc.pending = {}
  /\ LET r1 == set_parsed(set_parsed(cur, "resolved_hosts", loc.resolved),
                          "unresolved_hosts", loc.unresolved)
     IN cur' = IF loc.unresolved = <<>>
               THEN add_message(add_points(r1, MX_POINTS_ALL_RESOLVE), "success",
                                "All MX hosts resolve correctly")
               ELSE add_remediation(
                      add_message(r1, "error",
                         "Dangling MX record(s): " \o join(", ", loc.unresolved)),
                      "Fix or remove dangling MX records: " \o join(", ", loc.unresolved))
  /\ pc' = "mx_ret"
  /\ UNCHANGED <<scanVars, result, provider, loc>>

(***************************************************************************)
(* SPFChecker.check                                                        *)
(***************************************************************************)
\* a scan that swallows the exception of a checker and finalizes what it has
RaiseSwallowed ==
  /\ pc' = "finalize"
  /\ cur' = NoCheck
  /\ loc' = NoLocals
  /\ UNCHANGED <<scanVars, result, provider>>

\* a checker raised: the exception leaves scan() and the view answers 500
Raise ==
  /\ pc' = "failed"
  /\ cur' = NoCheck
  /\ loc' = NoLocals
  /\ UNCHANGED <<scanVars, result, provider>>

\* lines 55-77: the SPF record, the existence rule and the parse
SPFGet ==
  /\ pc = "spf_check"
  /\ LET got == get_spf_record(dns, Domain)
         r0 == _create_result("spf", SPF_max_points)
     IN IF got.raised THEN Raise
        ELSE /\ IF got.val = None
                THEN /\ cur' = add_remediation(
                                 add_message(r0, "error", "No SPF record found"),
                                 "Add an SPF record: v=spf1 include:<your-mail-provider> -all")
                     /\ pc' = "spf_ret"
                ELSE /\ cur' = [add_message(add_points(r0, SPF_POINTS_EXISTS),
                                            "success", "SPF record found")
                                  EXCEPT !.raw_records = <<got.val[1]>>,
                                         !.parsed_data = _parse_spf(got.val[1])]
                     /\ pc' = "spf_plusall"
             /\ UNCHANGED <<scanVars, result, provider, loc>>

\* lines 79-84: "+all" resets the control to 0 and returns
SPFPlusAll ==
  /\ pc = "spf_plusall"
  /\ IF DictGet(cur.parsed_data, "terminal", None) = Some("+all")
     THEN /\ cur' = add_remediation(
                      add_message([cur EXCEPT !.points = 0], "error",
                         "SPF uses +all which allows anyone to spoof your domain"),
                      "Change +all to -all to reject unauthorized senders")
          /\ pc' = "spf_ret"
     ELSE /\ cur' = cur
          /\ pc' = "spf_syntax"
  /\ UNCHANGED <<scanVars, result, provider, loc>>

RECURSIVE addSyntaxErrors(_, _, _)
addSyntaxErrors(r, errors, i) ==
  IF i > Len(errors) THEN r
  ELSE addSyntaxErrors(add_message(r, "error", "Syntax error: " \o errors[i]), errors, i + 1)

\* lines 86-103: syntax validity
SPFSyntax ==
  /\ pc = "spf_syntax"
  /\ LET syntax_errors == DictGet(cur.parsed_data, "syntax_errors", <<>>)
         duplicate_mechanisms == DictGet(cur.parsed_data, "duplicates", <<>>)
         r1 == IF syntax_errors # <<>>
               THEN add_remediation(addSyntaxErrors(cur, syntax_errors, 1),
                                    "Fix SPF syntax errors")
               ELSE cur
         r2 == IF duplicate_mechanisms # <<>>
               THEN add_remediation(
                      add_message(r1, "warning",
                         "Duplicate mechanisms: " \o join(", ", duplicate_mechanisms)),
                      "Remove duplicate mechanisms from SPF record")
               ELSE r1
     IN cur' = IF syntax_errors = <<>> /\ duplicate_mechanisms = <<>>
               THEN add_message(add_points(cur, SPF_POINTS_SYNTAX_VALID), "success",
                                "SPF syntax is valid")
               ELSE r2
  /\ pc' = "spf_lookups"
  /\ UNCHANGED <<scanVars, result, provider, loc>>

\* lines 105-119: DNS lookup count
SPFLookups ==
  /\ pc = "spf_lookups"
  /\ LET lookup_count == DictGet(cur.parsed_data, "lookup_count", 0)
         r1 == set_parsed(cur, "lookup_count", lookup_count)
     IN cur' = IF lookup_count <= 10
               THEN add_message(add_points(r1, SPF_POINTS_LOOKUP_LIMIT), "success",
                                "DNS lookups: " \o str(lookup_count) \o "/10")
               ELSE add_remediation(
                      add_message(r1, "error",
                         "Too many DNS lookups: " \o str(lookup_count) \o "/10 (SPF may fail)"),
                      "Reduce DNS lookups by flattening includes or using ip4/ip6 instead")
  /\ pc' = "spf_hosts"
  /\ UNCHANGED <<scanVars, result, provider, loc>>

\* lines 121-142: resolution of the a/mx hosts.  The for loop of lines 126-128
\* looks the hosts up one after the other, one blocking query per step
\* (loc.asked_a: the A query of the current host gave nothing); the rule is
\* scored when the loop has ended
SPFHosts ==
  /\ pc = "spf_hosts"
  /\ LET hosts_to_check == DictGet(cur.parsed_data, "hosts_to_check", <<>>)
         checked == DictGet(loc, "checked", 0)
         asked_a == DictGet(loc, "asked_a", FALSE)
         unresolved == DictGet(loc, "unresolved", <<>>)
         r1 == set_parsed(cur, "unresolved_hosts", unresolved)
     IN IF checked < Len(hosts_to_check)
        THEN /\ LET host == hosts_to_check[checked + 1]
                    q == host_exists(dns, host, asked_a)
                IN loc' = IF q.ended
                          THEN [checked |-> checked + 1, asked_a |-> FALSE,
                                unresolved |-> IF q.exists THEN unresolved
                                               ELSE Append(unresolved, host)]
                          ELSE [checked |-> checked, asked_a |-> TRUE,
                                unresolved |-> unresolved]
             /\ UNCHANGED <<pc, cur>>
        ELSE /\ cur' = IF hosts_to_check = <<>> \/ unresolved = <<>>
                       THEN add_message(add_points(r1, SPF_POINTS_HOSTS_RESOLVE), "success",
                                        "All referenced hosts resolve")
                       ELSE add_remediation(
                              add_message(r1, "warning",
                                 "Unresolved hosts: " \o join(", ", unresolved)),
                              "Fix or remove references to unresolved hosts: "
                                 \o join(", ", unresolved))
             /\ pc' = "spf_terminal"
             /\ UNCHANGED loc
  /\ UNCHANGED <<scanVars, result, provider>>

\* lines 144-161: terminal qualifier
SPFTerminal ==
  /\ pc = "spf_terminal"
  /\ LET terminal == DictGet(cur.parsed_data, "terminal", None)
     IN cur' =
          IF terminal = Some("-all")
          THEN add_message(add_points(cur, SPF_POINTS_TERMINAL_ALL), "success",
                           "SPF uses -all (strict reject)")
          ELSE IF terminal = Some("~all")
          THEN add_remediation(
                 add_message(add_points(cur, SPF_POINTS_TERMINAL_SOFTFAIL), "warning",
                    "SPF uses ~all (soft fail) - consider upgrading to -all"),
                 "Change ~all to -all for stricter enforcement")
          ELSE IF terminal = Some("?all")
          THEN add_remediation(
                 add_message(cur, "warning",
                    "SPF uses ?all (neutral) - this provides no protection"),
                 "Change ?all to -all for protection")
          ELSE add_remediation(
                 add_message(cur, "warning", "SPF missing terminal 'all' mechanism"),
                 "Add -all at the end of your SPF record")
  /\ pc' = "spf_hygiene"
  /\ UNCHANGED <<scanVars, result, provider, loc>>

\* lines 163-183: no ptr, no excessive expansion
SPFHygiene ==
  /\ pc = "spf_hygiene"
  /\ LET has_ptr == DictGet(cur.parsed_data, "has_ptr", FALSE)
         include_count == DictGet(cur.parsed_data, "include_count", 0)
         excessive_includes == include_count > 5
         r1 == IF has_ptr
               THEN add_remediation(
                      add_message(cur, "warning",
                         "SPF uses ptr mechanism (deprecated and unreliable)"),
                      "Remove ptr mechanism from SPF record")
               ELSE cur
         r2 == IF excessive_includes
               THEN add_message(r1, "info",
                      "Many includes (" \o str(include_count) \o ") - consider flattening")
               ELSE r1
     IN cur' = IF ~has_ptr /\ ~excessive_includes
               THEN add_message(add_points(cur, SPF_POINTS_NO_PTR), "success",
                                "No deprecated ptr mechanism used")
               ELSE r2
  /\ pc' = "spf_ret"
  /\ UNCHANGED <<scanVars, result, provider, loc>>

(***************************************************************************)
(* DKIMChecker.check                                                       *)
(***************************************************************************)
\* record[:100]
SubSeq100(s) == SubSeq(s, 1, IF Len(s) < 100 THEN Len(s) ELSE 100)

\* lines 58-97: selector discovery and the existence rule.  The loop of lines
\* 77-82 probes the selectors one after the other, one blocking query per
\* step (loc.txt_name: the name the CNAME query of the current selector
\* settled); the rule is scored when the loop has ended
DKIMDiscover ==
  /\ pc = "dkim_check"
  /\ LET is_m365 == provider = "microsoft365"
         selectors_to_check == IF is_m365 THEN M365_DKIM_SELECTORS
                               ELSE COMMON_DKIM_SELECTORS
         probed == DictGet(loc, "probed", 0)
         txt_name == DictGet(loc, "txt_name", None)
         discovered_selectors == DictGet(loc, "discovered_selectors", <<>>)
         selector_records == DictGet(loc, "selector_records", EmptyDict)
         r0 == IF cur = NoCheck
               THEN [_create_result("dkim", DKIM_max_points) EXCEPT
                       !.parsed_data = DictSet(DictSet(@, "provider", provider),
                                               "is_m365", is_m365)]
               ELSE cur
     IN IF probed < Len(selectors_to_check)
        THEN LET selector == selectors_to_check[probed + 1]
                 got == get_dkim_record(dns, Domain, selector, txt_name)
                 found == got.val # None /\ got.val[1] # ""
             IN IF got.ended /\ got.raised THEN Raise
                ELSE /\ cur' = IF got.ended /\ found
                               THEN [r0 EXCEPT !.raw_records =
                                       Append(@, selector \o ": "
                                                   \o SubSeq100(got.val[1]) \o "...")]
                               ELSE r0
                     /\ loc' = [probed |-> IF got.ended THEN probed + 1 ELSE probed,
                                txt_name |-> got.txt_name,
                                discovered_selectors |->
                                  IF got.ended /\ found
                                  THEN Append(discovered_selectors, selector)
                                  ELSE discovered_selectors,
                                selector_records |->
                                  IF got.ended /\ found
                                  THEN DictSet(selector_records, selector, got.val[1])
                                  ELSE selector_records]
                     /\ UNCHANGED <<pc, scanVars, result, provider>>
        ELSE LET r1 == [r0 EXCEPT
                          !.parsed_data =
                             DictSet(DictSet(@, "discovered_selectors", discovered_selectors),
                                     "selector_count", Len(discovered_selectors))]
             IN /\ IF discovered_selectors # <<>>
                   THEN /\ cur' = add_message(add_points(r1, DKIM_POINTS_SELECTOR_EXISTS),
                                     "success",
                                     "Found " \o str(Len(discovered_selectors))
                                        \o " DKIM selector(s): "
                                        \o join(", ", discovered_selectors))
                        /\ loc' = [is_m365 |-> is_m365,
                                   discovered_selectors |-> discovered_selectors,
                                   selector_records |-> selector_records]
                        /\ pc' = "dkim_key"
                   ELSE /\ cur' = add_remediation(
                                    add_message(r1, "error", "No DKIM selectors found"),
                                    "Configure DKIM signing with your email provider")
                        /\ loc' = NoLocals
                        /\ pc' = "dkim_ret"
                /\ UNCHANGED <<scanVars, result, provider>>

\* lines 100-107: key length of every discovered record and the maximum
RECURSIVE keyLengthsFrom(_, _, _, _)
keyLengthsFrom(selectors, records, i, st) ==
  IF i > Len(selectors) THEN st
  ELSE LET key_length == _extract_key_length(records[selectors[i]])
       IN keyLengthsFrom(selectors, records, i + 1,
            [key_lengths |-> DictSet(st.key_lengths, selectors[i], key_length),
             max_key_length |-> IF key_length > st.max_key_length
                                THEN key_length ELSE st.max_key_length])

\* lines 99-129: key length
DKIMKey ==
  /\ pc = "dkim_key"
  /\ LET k == keyLengthsFrom(loc.discovered_selectors, loc.selector_records, 1,
                             [key_lengths |-> EmptyDict, max_key_length |-> 0])
         max_key_length == k.max_key_length
         r1 == set_parsed(set_parsed(cur, "key_lengths", k.key_lengths),
                          "max_key_length", max_key_length)
     IN cur' =
          IF max_key_length >= 2048
          THEN add_message(add_points(r1, DKIM_POINTS_KEY_2048), "success",
                  "DKIM key length: " \o str(max_key_length) \o " bits (strong)")
          ELSE IF max_key_length >= 1024
          THEN add_remediation(
                 add_message(add_points(r1, DKIM_POINTS_KEY_1024), "warning",
                    "DKIM key length: " \o str(max_key_length)
                       \o " bits (consider upgrading to 2048)"),
                 "Upgrade DKIM key to 2048 bits for stronger security")
          ELSE IF max_key_length > 0
          THEN add_remediation(
                 add_message(r1, "error",
                    "DKIM key length: " \o str(max_key_length) \o " bits (too weak)"),
                 "DKIM key is too short. Upgrade to at least 2048 bits")
          ELSE add_message(r1, "warning", "Could not determine DKIM key length")
  /\ pc' = "dkim_provider"
  /\ UNCHANGED <<scanVars, result, provider, loc>>

\* a delegation test that compares the CNAME target as it is spelled
m365FromCaseSensitive(z, i, st) ==
  LET cname == get_dkim_cname(z, Domain, M365_DKIM_SELECTORS[i])
  IN IF Truthy(cname) /\ contains(cname[1], "onmicrosoft.com")
     THEN [valid |-> st.valid + 1,
           cnames |-> DictSet(st.cnames, M365_DKIM_SELECTORS[i], cname[1])]
     ELSE st

\* lines 137-141, one pass of the loop: the CNAME query of the i-th M365
\* selector and the delegation test; st is [valid, cnames]
m365From(z, i, st) ==
  LET cname == get_dkim_cname(z, Domain, M365_DKIM_SELECTORS[i])
  IN IF Truthy(cname) /\ contains(lower(cname[1]), "onmicrosoft.com")
     THEN [valid |-> st.valid + 1,
           cnames |-> DictSet(st.cnames, M365_DKIM_SELECTORS[i], cname[1])]
     ELSE st

\* lines 131-183: M365 delegation, or rotation readiness.  The loop of lines
\* 137-141 asks for the CNAME of each M365 selector, one blocking query per
\* step (loc.m365_checked selectors done); the rule is scored when it ended
DKIMProviderRule ==
  /\ pc = "dkim_provider"
  /\ LET checked == DictGet(loc, "m365_checked", 0)
         m == [valid |-> DictGet(loc, "m365_selectors_valid", 0),
               cnames |-> DictGet(loc, "m365_cnames", EmptyDict)]
     IN IF loc.is_m365 /\ checked < Len(M365_DKIM_SELECTORS)
        THEN /\ LET m1 == m365From(dns, checked + 1, m)
                IN loc' = DictSet(DictSet(DictSet(loc, "m365_checked", checked + 1),
                                          "m365_selectors_valid", m1.valid),
                                  "m365_cnames", m1.cnames)
             /\ UNCHANGED <<pc, cur>>
        ELSE /\ IF loc.is_m365
                THEN LET r1 == set_parsed(set_parsed(cur, "m365_cnames", m.cnames),
                                          "m365_selectors_valid", m.valid)
                     IN cur' =
                          IF m.valid >= 2
                          THEN add_message(add_points(r1, DKIM_POINTS_M365_BOTH), "success",
                                  "Both M365 DKIM selectors (selector1, selector2) are configured")
                          ELSE IF m.valid = 1
                          THEN add_remediation(
                                 add_message(add_points(r1, DKIM_POINTS_M365_ONE), "warning",
                                    "Only one M365 DKIM selector configured"),
                                 "Enable both selector1 and selector2 in Microsoft 365 admin")
                          ELSE add_remediation(
                                 add_message(r1, "error",
                                    "M365 DKIM selectors not properly configured"),
                                 "Configure DKIM in Microsoft 365 admin center")
                ELSE cur' =
                       IF Len(loc.discovered_selectors) >= 2
                       THEN add_message(add_points(cur, DKIM_POINTS_MULTI_SELECTOR), "success",
                               "Multiple DKIM selectors found (good for key rotation)")
                       ELSE add_message(cur, "info",
                               "Single DKIM selector found. Consider adding a second for key rotation")
             /\ pc' = "dkim_ret"
             /\ UNCHANGED loc
  /\ UNCHANGED <<scanVars, result, provider>>

(***************************************************************************)
(* DMARCChecker.check                                                      *)
(***************************************************************************)
\* lines 59-89: the DMARC records, the existence-and-unique rule, the parse
DMARCGet ==
  /\ pc = "dmarc_check"
  /\ LET got == get_dmarc_record(dns, Domain)
         r0 == [_create_result("dmarc", DMARC_max_points)
                  EXCEPT !.raw_records = got.all]
     IN IF got.raised THEN Raise
        ELSE /\ IF got.first = None
                THEN /\ cur' = add_remediation(
                                 add_message(r0, "error", "No DMARC record found"),
                                 "Add a DMARC record: _dmarc.yourdomain.com TXT \"v=DMARC1; p=reject; rua=mailto:dmarc@yourdomain.com\"")
                     /\ pc' = "dmarc_ret"
                ELSE /\ cur' =
                          [(IF Len(got.all) > 1
                            THEN add_remediation(
                                   add_message(r0, "warning",
                                      "Multiple DMARC records found (" \o str(Len(got.all))
                                         \o ") - this may cause issues"),
                                   "Remove duplicate DMARC records, keep only one")
                            ELSE add_message(add_points(r0, DMARC_POINTS_EXISTS), "success",
                                             "DMARC record found and unique"))
                             EXCEPT !.parsed_data = _parse_dmarc(got.first[1])]
                     /\ pc' = "dmarc_policy"
             /\ UNCHANGED <<scanVars, result, provider, loc>>

\* policy = parsed.get("p", "").lower()
Policy(parsed) == lower(DictGet(parsed, "p", ""))

\* lines 91-115: policy strength
DMARCPolicy ==
  /\ pc = "dmarc_policy"
  /\ LET policy == Policy(cur.parsed_data)
     IN /\ cur' =
             IF policy = "reject"
             THEN add_message(add_points(cur, DMARC_POINTS_REJECT), "success",
                              "DMARC policy is 'reject' (strongest)")
             ELSE IF policy = "quarantine"
             THEN add_remediation(
                    add_message(add_points(cur, DMARC_POINTS_QUARANTINE), "warning",
                       "DMARC policy is 'quarantine' - consider upgrading to 'reject'"),
                    "Upgrade DMARC policy from p=quarantine to p=reject")
             ELSE IF policy = "none"
             THEN add_remediation(
                    add_message(cur, "warning",
                       "DMARC policy is 'none' (monitoring only, no protection)"),
                    "Upgrade DMARC policy to p=quarantine or p=reject after analyzing reports")
             ELSE add_remediation(
                    add_message(cur, "error", "DMARC policy (p=) not specified or invalid"),
                    "Add a policy tag: p=reject")
        /\ loc' = [policy |-> policy]
  /\ pc' = "dmarc_rua"
  /\ UNCHANGED <<scanVars, result, provider>>

\* lines 117-130: aggregate reports
DMARCRua ==
  /\ pc = "dmarc_rua"
  /\ LET rua == DictGet(cur.parsed_data, "rua", "")
         rua_uris == _parse_uris(rua)
         r1 == set_parsed(cur, "rua_uris", rua_uris)
     IN cur' = IF rua_uris # <<>>
               THEN add_message(add_points(r1, DMARC_POINTS_RUA), "success",
                       "Aggregate reporting configured: " \o str(Len(rua_uris))
                          \o " recipient(s)")
               ELSE add_remediation(
                      add_message(r1, "warning", "No aggregate reporting (rua) configured"),
                      "Add rua=mailto:dmarc-reports@yourdomain.com for visibility")
  /\ pc' = "dmarc_align"
  /\ UNCHANGED <<scanVars, result, provider, loc>>

\* lines 132-162: alignment
DMARCAlign ==
  /\ pc = "dmarc_align"
  /\ LET adkim == lower(DictGet(cur.parsed_data, "adkim", "r"))
         aspf == lower(DictGet(cur.parsed_data, "aspf", "r"))
         r1 == set_parsed(set_parsed(cur, "adkim", adkim), "aspf", aspf)
         strict_count == (IF adkim = "s" THEN 1 ELSE 0) + (IF aspf = "s" THEN 1 ELSE 0)
         strict_which == IF adkim = "s" THEN "DKIM" ELSE "SPF"
         relaxed_which == IF adkim = "s" THEN "SPF" ELSE "DKIM"
     IN cur' =
          IF strict_count = 2
          THEN add_message(add_points(r1, DMARC_POINTS_STRICT_BOTH), "success",
                           "Both DKIM and SPF alignment are strict")
          ELSE IF strict_count = 1
          THEN add_remediation(
                 add_message(add_points(r1, DMARC_POINTS_STRICT_ONE), "info",
                    strict_which \o " alignment is strict, " \o relaxed_which
                       \o " is relaxed"),
                 "Consider setting " \o lower(relaxed_which)
                    \o " alignment to strict (a" \o Char(lower(relaxed_which), 1) \o "=s)")
          ELSE add_remediation(
                 add_message(r1, "info",
                    "Both DKIM and SPF alignment are relaxed (default)"),
                 "Consider strict alignment (adkim=s; aspf=s) for better protection")
  /\ pc' = "dmarc_fo"
  /\ UNCHANGED <<scanVars, result, provider, loc>>

\* lines 164-177: failure reporting options
DMARCFo ==
  /\ pc = "dmarc_fo"
  /\ LET fo == DictGet(cur.parsed_data, "fo", "0")
         r1 == set_parsed(cur, "fo", fo)
     IN cur' = IF contains(fo, "1") \/ contains(fo, "s") \/ contains(fo, "d")
               THEN add_message(add_points(r1, DMARC_POINTS_FO), "success",
                                "Failure reporting enabled (fo=" \o fo \o ")")
               ELSE add_remediation(
                      add_message(r1, "info",
                         "Failure reporting set to default (fo=0, only on full failure)"),
                      "Add fo=1 for detailed failure reports")
  /\ pc' = "dmarc_pct"
  /\ UNCHANGED <<scanVars, result, provider, loc>>

\* lines 180-184: int(pct_str), 100 on ValueError
Pct(parsed) ==
  LET r == int(DictGet(parsed, "pct", "100")) IN IF r.ok THEN r.val ELSE 100

\* lines 179-200: percentage
DMARCPct ==
  /\ pc = "dmarc_pct"
  /\ LET pct == Pct(cur.parsed_data)
         r1 == set_parsed(cur, "pct", pct)
     IN cur' =
          IF pct = 100
          THEN add_message(add_points(r1, DMARC_POINTS_PCT_100), "success",
                           "Policy applies to 100% of messages")
          ELSE IF pct > 0
          THEN add_remediation(
                 add_message(add_points(r1, DMARC_POINTS_PCT_PARTIAL), "info",
                    "Policy applies to " \o str(pct) \o "% of messages (rollout mode)"),
                 "Increase pct to 100 after testing")
          ELSE add_remediation(
                 add_message(r1, "warning", "pct=0 means policy is not being applied"),
                 "Set pct to 100 to enforce your policy")
  /\ pc' = "dmarc_sp"
  /\ UNCHANGED <<scanVars, result, provider, loc>>

\* lines 202-223: subdomain policy
DMARCSp ==
  /\ pc = "dmarc_sp"
  /\ LET sp == lower(DictGet(cur.parsed_data, "sp", ""))
         parent_policy == loc.policy
         r1 == set_parsed(cur, "sp", sp)
     IN cur' =
          IF sp # ""
          THEN IF sp = parent_policy \/ (parent_policy = "" /\ sp = "none")
               THEN add_message(add_points(r1, DMARC_POINTS_SP), "success",
                                "Subdomain policy (sp=" \o sp \o ") is set")
               ELSE IF sp \in {"reject", "quarantine", "none"}
               THEN add_message(add_points(r1, DMARC_POINTS_SP), "info",
                       "Subdomain policy (sp=" \o sp \o ") differs from parent ("
                          \o parent_policy \o ")")
               ELSE add_message(r1, "warning", "Invalid subdomain policy: sp=" \o sp)
          ELSE add_message(cur, "info",
                  "No subdomain policy (sp) set - inherits parent policy")
  /\ pc' = "dmarc_ret"
  /\ UNCHANGED <<scanVars, result, provider, loc>>

(***************************************************************************)
(* ScoringEngine.scan: the end of a scan, and the next scan                *)
(***************************************************************************)
\* scan(), lines 150-153
Finalize ==
  /\ pc = "finalize"
  /\ result' = calculate_final_score(result)
  /\ pc' = "done"
  /\ UNCHANGED <<scanVars, provider, cur, loc>>

\* the domain is scanned again
NextScan ==
  /\ pc \in {"done", "failed"}
  /\ scanNo < MaxScans
  /\ prev' = Append(prev, IF pc = "done" THEN Some(result) ELSE None)
  /\ scanNo' = scanNo + 1
  /\ result' = ScanResult(Domain)
  /\ provider' = "unknown"
  /\ pc' = "scan"
  /\ UNCHANGED <<dns, cur, loc, call>>

\* one step of the running scan
ScanStep ==
  \/ EngineDetect
  \/ MXCheck
  \/ \E i \in RunningLookups : \E t \in 1..MX_max_workers : check_host(i, t)
  \/ \E i \in EndedLookups : MXComplete(i)
  \/ MXScore
  \/ SPFGet
  \/ SPFPlusAll
  \/ SPFSyntax
  \/ SPFLookups
  \/ SPFHosts
  \/ SPFTerminal
  \/ SPFHygiene
  \/ DKIMDiscover
  \/ DKIMKey
  \/ DKIMProviderRule
  \/ DMARCGet
  \/ DMARCPolicy
  \/ DMARCRua
  \/ DMARCAlign
  \/ DMARCFo
  \/ DMARCPct
  \/ DMARCSp
  \/ AddCheckResult
  \/ Finalize

Next ==
  \/ ScanStep
  \/ NextScan

(***************************************************************************)
(* Direct calls of calculate_grade                                         *)
(***************************************************************************)
Call(fn, arg) == [fn |-> fn, arg |-> Some(arg), ret |-> None]

\* calculate_grade(score) is called and returns
ApplyCall ==
  /\ call.fn = "calculate_grade"
  /\ call.ret = None
  /\ call' = [call EXCEPT !.ret = Some(calculate_grade(call.arg[1]))]
  /\ UNCHANGED <<dns, pc, scanNo, prev, result, provider, cur, loc>>

NextGrade ==
  \/ Next
  \/ ApplyCall

(***************************************************************************)
(* Zones                                                                   *)
(***************************************************************************)
\* a TXT answer whose records are the given strings, one byte string each
TxtAnswer(records) == Answer([i \in 1..Len(records) |-> <<Bytes(records[i])>>])

MxRR(preference, exchange) == [preference |-> preference, exchange |-> exchange]

Mx1 == "mx1.ex.com"
Mx2 == "mx2.ex.com"
MxM365 == "ex-com.mail.protection.outlook.com"
MxGoogle == "ASPMX.L.GOOGLE.COM"

Addr(hosts4, hosts6) ==
  [A |-> [h \in hosts4 |-> Answer(<<"192.0.2.1">>)],
   AAAA |-> [h \in hosts6 |-> Answer(<<"2001:db8::1">>)]]

DkimName(selector) == selector \o "._domainkey." \o Domain

RECURSIVE Rep(_, _)
Rep(c, k) ==
  IF k <= 0 THEN "" ELSE IF k = 1 THEN c ELSE Rep(c, k \div 2) \o Rep(c, k - k \div 2)

\* the base64 text of a key of n bytes
KeyOf(n) ==
  Rep("MIIB", n \div 3)
    \o (IF n % 3 = 1 THEN "AQ==" ELSE IF n % 3 = 2 THEN "AQI=" ELSE "")

DkimRecord(key) == "v=DKIM1; k=rsa; p=" \o key

\* selectors published directly as TXT records; keys maps selector -> key text
DkimDirect(keys) ==
  [TXT |-> [name \in {DkimName(sel) : sel \in DOMAIN keys} |->
              LET sel == CHOOSE x \in DOMAIN keys : DkimName(x) = name
              IN TxtAnswer(<<DkimRecord(keys[sel])>>)],
   CNAME |-> EmptyDict]

M365Target(selector) == selector \o "-ex-com._domainkey.excom.onmicrosoft.com"

\* selectors delegated by CNAME to the provider, which publishes the TXT record
DkimDelegated(keys) ==
  [TXT |-> [name \in {M365Target(sel) : sel \in DOMAIN keys} |->
              LET sel == CHOOSE x \in DOMAIN keys : M365Target(x) = name
              IN TxtAnswer(<<DkimRecord(keys[sel])>>)],
   CNAME |-> [name \in {DkimName(sel) : sel \in DOMAIN keys} |->
              LET sel == CHOOSE x \in DOMAIN keys : DkimName(x) = name
              IN Answer(<<M365Target(sel) \o ".">>)]]

DkimBoth(d1, d2) == [TXT |-> d1.TXT @@ d2.TXT, CNAME |-> d1.CNAME @@ d2.CNAME]

Zone(mx, addr, spf, dmarc, dkim) ==
  [MX |-> (Domain :> mx),
   A |-> addr.A,
   AAAA |-> addr.AAAA,
   TXT |-> (Domain :> spf) @@ (("_dmarc." \o Domain) :> dmarc) @@ dkim.TXT,
   CNAME |-> dkim.CNAME]

\* MX outcomes
MxOne == Answer(<<MxRR(10, Mx1 \o ".")>>)
MxTwo == Answer(<<MxRR(20, Mx2 \o "."), MxRR(10, Mx1 \o ".")>>)
MxTie == Answer(<<MxRR(10, Mx2 \o "."), MxRR(10, Mx1 \o ".")>>)
MxOutlook == Answer(<<MxRR(0, MxM365 \o ".")>>)
MxMixed == Answer(<<MxRR(20, Mx1 \o "."), MxRR(5, MxGoogle \o ".")>>)

MxOutcomes ==
  {MxOne, MxTwo, MxTie, MxOutlook, MxMixed} \cup {Failure(k) : k \in FailureKinds}

\* address records of the mail hosts
AddrAll == Addr({Mx1, Mx2, MxM365}, {MxGoogle})
AddrNoMx2 == Addr({Mx1, MxM365}, {})
AddrNone == Addr({}, {})

\* SPF records
SpfStrict == "v=spf1 mx -all"
SpfRecords ==
  { SpfStrict,
    "v=spf1 -all", "v=spf1 ~all", "v=spf1 ?all", "v=spf1 +all", "v=spf1 all",
    "v=spf1", "V=SPF1 include:_spf.ex.net +ALL", "v=spf1 +all -all",
    "v=spf1 -all +all", "v=spf1 all ~all", "v=spf1 foo +all", "v=spf1 foo -all",
    "v=spf1 a:mx1.ex.com mx:gone.ex.com ptr -all", "v=spf1 a a -all",
    "v=spf1 ip4:192.0.2.0/24 a/24 -all", "v=spf1 +all:x ~all",
    "v=spf1 a:mx1.ex.com a:MX1.ex.com mx:mx2.ex.com ?all",
    "v=spf1 include:a include:b include:c include:d include:e include:f ~all",
    "v=spf1 a mx ptr exists:x include:a include:b include:c include:d include:e a:y mx:z -all",
    "v=spf1 redirect=_spf.ex.net", "v=spf10 -all", "v=spf1\t-a:h  + -ALL",
    "v=spf1 exp=x.ex.com ip6:2001:db8::/32 -mx/24 ~all",
    "v=spf1 a:mx1.ex.com foo mx:mx2.ex.com -bar:x include:y ptr a:mx1.ex.com -all",
    "v=spf1 a:mx1.ex.com/24 include:mx2.ex.com exists:gone.ex.com ~all",
    "v=spf1mx-all", "v=spf1 a:mx1.ex.commx:gone.ex.com ~all",
    "v=spf1 a mx exists:x include:a include:b include:c include:d include:e a:mx1.ex.com mx:mx2.ex.com ip4:192.0.2.1 ip6:2001:db8::1 exp=e.ex.com -all" }

\* TXT outcomes of the domain that hold no record with the v=spf1 prefix
NoSpfOutcomes ==
  { TxtAnswer(<<"google-site-verification=abc">>),
    TxtAnswer(<<" v=spf1 -all">>),
    TxtAnswer(<<"spf1 -all", "x v=spf1 -all">>),
    TxtAnswer(<<"">>),
    TxtAnswer(<<"v=spf">>),
    Answer(<< <<Bytes("v=sp"), Bytes("f -all")>> >>) }
    \cup {Failure(k) : k \in FailureKinds}

\* other TXT outcomes of the domain
OtherSpfOutcomes ==
  { TxtAnswer(<<"google-site-verification=abc", "v=spf1 ~all">>),
    TxtAnswer(<<"v=spf1 +all", "v=spf1 -all">>),
    Answer(<< <<Bytes("v=spf1 a"), Bytes(" -all")>> >>),
    Answer(<< <<Bytes("v=spf1 -all")>>, <<BadBytes("x")>> >>),
    Answer(<< <<BadBytes("x")>> >>) }

SpfOutcomes ==
  {TxtAnswer(<<r>>) : r \in SpfRecords} \cup NoSpfOutcomes \cup OtherSpfOutcomes

\* DMARC records
DmarcFull ==
  "v=DMARC1; p=reject; rua=mailto:d@ex.com; adkim=s; aspf=s; fo=1; pct=100; sp=reject"
DmarcRecords ==
  { DmarcFull,
    "v=DMARC1; p=reject", "v=DMARC1; p=none", "v=DMARC1", "v=dmarc1;P = Quarantine ; pct=50",
    "v=DMARC1; p=quarantine; rua=http://x, MAILTO:d@ex.com; adkim=S; fo=0:d; pct=0; sp=none",
    "v=DMARC1; p=reject; rua=d@ex.com; aspf=s; fo=0; pct=abc; sp=quarantine",
    "v=DMARC1; p=foo; sp=foo; pct=-5; fo=", "v=DMARC1; sp=none; pct=1_0",
    "v=DMARC1; p=reject; p=none; sp=bar; pct=101; x=y=z",
    "v=DMARC1;p=reject;pct= 50; rua=mailto:a@ex.com,mailto:b@ex.com; É=1",
    "v=DMARC1; p=reject; pct=" \o Rep("9", INT_MAX_STR_DIGITS + 1),
    "v=DMARC1 p=reject" }

\* TXT outcomes of _dmarc.<domain> that hold no record with the v=dmarc1 prefix
NoDmarcOutcomes ==
  { TxtAnswer(<<"v=spf1 -all">>),
    TxtAnswer(<<" v=DMARC1; p=reject">>),
    TxtAnswer(<<"p=reject; v=DMARC1", "">>) }
    \cup {Failure(k) : k \in FailureKinds}

\* TXT outcomes of _dmarc.<domain> with several records
ManyDmarcOutcomes ==
  { TxtAnswer(<<DmarcFull, DmarcFull>>),
    TxtAnswer(<<"v=DMARC1; p=none", DmarcFull>>),
    TxtAnswer(<<"v=DMARC1; p=quarantine; sp=reject", "x", "V=DMARC1", "v=dmarc1; p=reject">>),
    TxtAnswer(<<"x", DmarcFull>>),
    Answer(<< <<Bytes("v=DMARC1; "), Bytes("p=reject")>>, <<Bytes("v=DMARC1;")>> >>),
    Answer(<< <<Bytes(DmarcFull)>>, <<BadBytes("x")>> >>) }

DmarcOutcomes ==
  {TxtAnswer(<<r>>) : r \in DmarcRecords} \cup NoDmarcOutcomes \cup ManyDmarcOutcomes

\* largest key, in bytes, of the DKIM key sweep
MaxKeyBytes == 260

\* DKIM publications
DkimNone == [TXT |-> EmptyDict, CNAME |-> EmptyDict]
DkimStrong == DkimDirect("default" :> KeyOf(256))
DkimM365 == DkimDelegated(("selector1" :> KeyOf(256)) @@ ("selector2" :> KeyOf(256)))
DkimRotated == DkimDirect(("google" :> KeyOf(128)) @@ ("s1" :> KeyOf(256)))

DkimOddKeys ==
  { "", "=", "====", "M", "MI", "MII", "MI=", "MII=", "MIIBA", "MIIB=", "MI=I=",
    "MIIB;x", "MI==MIIB", Rep("MIIB", 84) \o "M",
    "MIIBÉ", "MIIBMIIBÉÉ", "ÞMII", "QUJDÀQUJD" }

\* selector1 delegated to a target spelled in mixed case, selector2 delegated
\* to another provider
DkimMixedCase ==
  [TXT |-> ("Selector1-ex-com._domainkey.excom.ONMICROSOFT.com"
              :> TxtAnswer(<<DkimRecord(KeyOf(256))>>))
           @@ ("selector2.dkim.other.net" :> TxtAnswer(<<DkimRecord(KeyOf(128))>>)),
   CNAME |-> (DkimName("selector1")
                :> Answer(<<"Selector1-ex-com._domainkey.excom.ONMICROSOFT.com.">>))
             @@ (DkimName("selector2") :> Answer(<<"selector2.dkim.other.net.">>))]

DkimPublications ==
  { DkimNone, DkimStrong, DkimM365, DkimRotated, DkimMixedCase,
    DkimDelegated("selector1" :> KeyOf(128)),
    DkimBoth(DkimDelegated("selector2" :> KeyOf(64)), DkimDirect("selector1" :> KeyOf(256))),
    DkimDirect(("selector1" :> KeyOf(256)) @@ ("selector2" :> KeyOf(256))),
    DkimDirect(("default" :> "") @@ ("dkim" :> KeyOf(62)) @@ ("mail" :> KeyOf(63))),
    [TXT |-> (DkimName("k1") :> TxtAnswer(<<"x", "k=rsa">>)), CNAME |-> EmptyDict],
    [TXT |-> (DkimName("smtp") :> Answer(<< <<BadBytes("x")>> >>)), CNAME |-> EmptyDict] }
    \cup {DkimDirect("default" :> KeyOf(n)) : n \in 0..MaxKeyBytes}
    \cup {DkimDirect("default" :> k) : k \in DkimOddKeys}

BaseZone == Zone(MxOne, AddrAll, TxtAnswer(<<SpfStrict>>), TxtAnswer(<<DmarcFull>>), DkimStrong)

(***************************************************************************)
(* Specifications                                                          *)
(***************************************************************************)
InitScan(zones) ==
  /\ dns \in zones
  /\ pc = "scan"
  /\ scanNo = 1
  /\ prev = <<>>
  /\ result = ScanResult(Domain)
  /\ provider = "unknown"
  /\ cur = NoCheck
  /\ loc = NoLocals
  /\ call = NoCall

\* the SPF, DMARC and DKIM data a zone combines with its mail hosts
Profile(spf, dmarc, dkim) == [spf |-> spf, dmarc |-> dmarc, dkim |-> dkim]

Profiles ==
  { Profile(TxtAnswer(<<SpfStrict>>), TxtAnswer(<<DmarcFull>>), DkimM365),
    Profile(TxtAnswer(<<SpfStrict>>), TxtAnswer(<<DmarcFull>>), DkimStrong),
    Profile(TxtAnswer(<<SpfStrict>>), TxtAnswer(<<DmarcFull, DmarcFull>>), DkimRotated),
    Profile(TxtAnswer(<<SpfStrict>>), TxtAnswer(<<"v=DMARC1; p=none">>), DkimStrong),
    Profile(TxtAnswer(<<"v=spf1 ~all">>), TxtAnswer(<<"v=DMARC1; p=quarantine; pct=50">>),
            DkimDirect("default" :> KeyOf(128))),
    Profile(TxtAnswer(<<"v=spf1 +all">>), TxtAnswer(<<"v=DMARC1; p=none">>), DkimNone),
    Profile(Failure("Timeout"), Failure("NXDOMAIN"), DkimNone),
    Profile(Answer(<< <<BadBytes("x")>> >>), TxtAnswer(<<DmarcFull>>), DkimStrong) }

\* scans of zones that combine a few outcomes of every question
MainZones ==
  { Zone(mx, addr, p.spf, p.dmarc, p.dkim) :
      mx \in {MxOne, MxTwo, MxTie, MxOutlook, Failure("NoAnswer")},
      addr \in {AddrAll, AddrNoMx2, AddrNone},
      p \in Profiles }

Init == InitScan(MainZones)

Spec == Init /\ [][Next]_vars

\* scans that sweep the TXT outcomes of the domain
SpfZones ==
  { Zone(MxOne, addr, spf, TxtAnswer(<<DmarcFull>>), DkimStrong) :
      addr \in {AddrAll, AddrNone}, spf \in SpfOutcomes }

InitSpf == InitScan(SpfZones)

SpecSpf == InitSpf /\ [][Next]_vars

\* scans that sweep the TXT outcomes of _dmarc.<domain>
DmarcZones ==
  { Zone(MxOne, AddrAll, TxtAnswer(<<SpfStrict>>), dmarc, DkimStrong) :
      dmarc \in DmarcOutcomes }

InitDmarc == InitScan(DmarcZones)

SpecDmarc == InitDmarc /\ [][Next]_vars

\* scans that sweep the DKIM publications
DkimZones ==
  { Zone(mx, AddrAll, TxtAnswer(<<SpfStrict>>), TxtAnswer(<<DmarcFull>>), dkim) :
      mx \in {MxOne, MxOutlook}, dkim \in DkimPublications }

InitDkim == InitScan(DkimZones)

SpecDkim == InitDkim /\ [][Next]_vars

\* largest score handed to calculate_grade
MaxScore == 100

\* zones whose scans end in different grades
GradeZones ==
  { Zone(MxOutlook, AddrAll, p.spf, p.dmarc, p.dkim) : p \in Profiles }
    \cup { Zone(MxOne, AddrNone, p.spf, p.dmarc, p.dkim) : p \in Profiles }

\* calls of calculate_grade with every score, next to scans of a few zones
InitGrade ==
  /\ \/ dns = BaseZone /\ call \in {Call("calculate_grade", s) : s \in 0..MaxScore}
     \/ dns \in GradeZones /\ call = Call("calculate_grade", MaxScore)
  /\ pc = "scan"
  /\ scanNo = 1
  /\ prev = <<>>
  /\ result = ScanResult(Domain)
  /\ provider = "unknown"
  /\ cur = NoCheck
  /\ loc = NoLocals

SpecGrade == InitGrade /\ [][NextGrade]_vars

\* six MX records that name two hosts: more lookups than the pool has workers
MxSix ==
  Answer(<<MxRR(10, Mx1 \o "."), MxRR(20, Mx2 \o "."), MxRR(30, Mx1 \o "."),
           MxRR(40, Mx1 \o "."), MxRR(50, Mx1 \o "."), MxRR(60, Mx1 \o ".")>>)

MxThree ==
  Answer(<<MxRR(30, "gone.ex.com."), MxRR(10, Mx1 \o "."), MxRR(20, Mx2 \o ".")>>)

\* an SPF record with three hosts to look up
SpfThreeHosts == "v=spf1 a:mx1.ex.com mx:mx2.ex.com a:gone.ex.com -all"

\* scans of zones with several mail hosts and several SPF hosts
PoolZones ==
  { Zone(mx, addr, TxtAnswer(<<SpfThreeHosts>>), TxtAnswer(<<DmarcFull>>), DkimStrong) :
      mx \in {MxSix, MxThree, MxTwo, MxMixed, MxOne},
      addr \in {AddrAll, AddrNoMx2, AddrNone} }

InitPool == InitScan(PoolZones)

\* one scan of each of these zones
SpecPool == InitPool /\ [][ScanStep]_vars

\* a Microsoft-365 domain, and the same domain while its MX query, or the
\* CNAME queries of its selectors, time out
ZoneM365 ==
  Zone(MxOutlook, AddrAll, TxtAnswer(<<SpfStrict>>), TxtAnswer(<<DmarcFull>>), DkimM365)

ZoneM365MxTimeout == [ZoneM365 EXCEPT !.MX = (Domain :> Failure("Timeout"))]

ZoneM365CnameTimeout ==
  [ZoneM365 EXCEPT !.CNAME = [name \in DOMAIN ZoneM365.CNAME |-> Failure("Timeout")]]

\* the same domain while its mail host has an AAAA record only (in ZoneM365 it
\* has an A record only) and its SPF record names the mail host
ZoneM365V6 ==
  Zone(MxOutlook, Addr({}, {MxM365}), TxtAnswer(<<"v=spf1 a:" \o MxM365 \o " -all">>),
       TxtAnswer(<<DmarcFull>>), DkimM365)

FlakyZones == {ZoneM365, ZoneM365MxTimeout, ZoneM365CnameTimeout, ZoneM365V6}

\* the answers of the DNS change while a scan runs (a query times out, a
\* record is published or withdrawn): between any two blocking queries
DnsChange ==
  /\ pc \notin {"done", "failed"}
  /\ dns' \in FlakyZones \ {dns}
  /\ UNCHANGED <<pc, scanNo, prev, result, provider, cur, loc, call>>

\* one scan of the domain while its DNS answers change
NextFlaky ==
  \/ ScanStep
  \/ DnsChange

InitFlaky == InitScan(FlakyZones)

\* a scan of a domain whose DNS answers change between queries
SpecFlaky == InitFlaky /\ [][NextFlaky]_vars

\* MX answers that sweep the host names the provider detector tells apart
ProviderMxOutcomes ==
  { Answer(<<MxRR(10, h)>>) :
      h \in { "mx1.ex.com.", "ex-com.mail.protection.outlook.com.",
              "EX-COM.Mail.Protection.Outlook.COM.", "mail.protection.outlook.com.",
              "mail.protection.outlook.com.ex.net.", "outlook.com.",
              "ASPMX.L.GOOGLE.COM.", "aspmx.l.google.com", "alt1.aspmx.l.google.com.",
              "xaspmx.l.google.com.", "mx.googlemail.com.", "googlemail.com.",
              "google.com.", "notgoogle.com.", "mx.google.com.ex.net." } }
    \cup { Answer(<<>>), Failure("NXDOMAIN"), Failure("Timeout"),
           Answer(<<MxRR(20, MxM365 \o "."), MxRR(10, MxGoogle \o ".")>>),
           Answer(<<MxRR(10, MxM365 \o "."), MxRR(10, MxGoogle \o ".")>>),
           Answer(<<MxRR(10, MxGoogle \o "."), MxRR(10, MxM365 \o ".")>>),
           Answer(<<MxRR(5, Mx1 \o "."), MxRR(30, MxGoogle \o "."), MxRR(20, MxM365 \o ".")>>),
           Answer(<<MxRR(30, "google.com."), MxRR(20, Mx2 \o "."), MxRR(10, Mx1 \o ".")>>),
           MxTwo }

ProviderZones ==
  { Zone(mx, AddrAll, TxtAnswer(<<SpfStrict>>), TxtAnswer(<<DmarcFull>>), DkimStrong) :
      mx \in ProviderMxOutcomes }

InitProvider == InitScan(ProviderZones)

\* scans that sweep the MX host names
SpecProvider == InitProvider /\ [][Next]_vars

(***************************************************************************)
(* Properties                                                              *)
(***************************************************************************)
\* positions of scan() at which a checker has just returned its CheckResult
ReturnPcs == {"mx_ret", "spf_ret", "dkim_ret", "dmarc_ret"}

AllControls == {"mx", "spf", "dkim", "dmarc"}

\* the texts of the TXT records at a name that start, in lower case, with prefix
PrefixedRecords(z, name, prefix) ==
  LET out == Lookup(z, "TXT", name)
      texts == [i \in 1..Len(out.rrs) |-> decodeJoin(out.rrs[i], 1, "")]
  IN IF out.kind # "answer" THEN <<>>
     ELSE SelectSeq(texts, LAMBDA r : startswith(lower(r), prefix))

\* every byte string of the TXT answer at a name is valid UTF-8
Decodable(z, name) ==
  LET out == Lookup(z, "TXT", name)
  IN \A i \in 1..Len(out.rrs) : \A j \in 1..Len(out.rrs[i]) : out.rrs[i][j].utf8

ErrorCount(r) == Cardinality({i \in 1..Len(r.messages) : r.messages[i].level = "error"})

LastMessage(r) == r.messages[Len(r.messages)]

(***************************************************************************)
(* C1                                                                      *)
(***************************************************************************)
ClaimedMax == [mx |-> 10, spf |-> 25, dkim |-> 25, dmarc |-> 40]

\* C1: every CheckResult a checker returns has 0 <= points <= max_points, with
\* max_points mx = 10, spf = 25, dkim = 25, dmarc = 40; also for a single DMARC
\* record that earns every DMARC rule at once.
C1_PointsWithinMax ==
  pc \in ReturnPcs =>
    /\ cur.max_points = ClaimedMax[cur.control]
    /\ 0 <= cur.points
    /\ cur.points <= cur.max_points

\* the DMARC checker returns for the single record that earns every rule
C1_FullDmarcReturned ==
  /\ pc = "dmarc_ret"
  /\ cur.raw_records = <<DmarcFull>>
  /\ cur.points = 42
  /\ cur.max_points = 40

(***************************************************************************)
(* C2                                                                      *)
(***************************************************************************)
\* C2: a returned ScanResult's score is the sum of the points of the four
\* CheckResults stored under mx, spf, dkim and dmarc, and 0 <= score <= 100 =
\* max_score.
C2_ScoreIsSum ==
  pc = "done" =>
    /\ DOMAIN result.checks = AllControls
    /\ result.score = result.checks["mx"].points + result.checks["spf"].points
                        + result.checks["dkim"].points + result.checks["dmarc"].points
    /\ 0 <= result.score
    /\ result.score <= 100
    /\ result.max_score = 100

\* the scan of the zone that earns the most: 10 + 25 + 21 + 42
C2_BestScanReturned ==
  /\ pc = "done"
  /\ result.score = 98
  /\ result.checks["dkim"].points = 21
  /\ result.checks["dmarc"].points = 42

(***************************************************************************)
(* C3                                                                      *)
(***************************************************************************)
\* the record has the token "+all" or a bare "all" after its version
HasPlusAll(record) ==
  LET toks == splitWs(record)
  IN \E i \in 2..Len(toks) : lower(toks[i]) \in {"+all", "all"}

SpfLaterPcs == {"spf_syntax", "spf_lookups", "spf_hosts", "spf_terminal", "spf_hygiene"}

\* C3: for an SPF record that contains "+all" or a bare "all", wherever it stands
\* and whatever else the record holds, SPFChecker.check returns points = 0 and
\* exactly one error message, and applies none of the later rules.
C3_PlusAllZeroes ==
  (cur # NoCheck /\ cur.control = "spf" /\ cur.raw_records # <<>>
     /\ HasPlusAll(cur.raw_records[1])) =>
    /\ pc \notin SpfLaterPcs
    /\ pc = "spf_ret" =>
         /\ cur.points = 0
         /\ ErrorCount(cur) = 1
         /\ Len(cur.messages) = 2
         /\ Len(cur.remediation) = 1

\* the record "v=spf1 +all -all" is returned with full marks
C3_PlusAllThenFailScoresFull ==
  /\ pc = "spf_ret"
  /\ cur.raw_records = <<"v=spf1 +all -all">>
  /\ cur.parsed_data["terminal"] = Some("-all")
  /\ cur.points = 25
  /\ ErrorCount(cur) = 0

(***************************************************************************)
(* C4                                                                      *)
(***************************************************************************)
\* no TXT record of the domain has the v=spf1 prefix
NoSpfPrefix == PrefixedRecords(dns, Domain, "v=spf1") = <<>>

\* the SPF checker raised: the scan failed after the MX result was stored
SpfRaised == pc = "failed" /\ DOMAIN result.checks = {"mx"}

SpfPcs == {"spf_plusall", "spf_ret"} \cup SpfLaterPcs

\* C4 as stated: with no v=spf1 record in the TXT data of the domain,
\* SPFChecker.check returns points = 0, records exactly one syntax error (in
\* parsed syntax_errors, with an error message for it), and raises nothing.
C4_OneSyntaxError ==
  NoSpfPrefix =>
    /\ ~SpfRaised
    /\ pc = "spf_ret" =>
         /\ cur.points = 0
         /\ Len(DictGet(cur.parsed_data, "syntax_errors", <<>>)) = 1
         /\ ErrorCount(cur) = 1

\* C4 amended: with no v=spf1 record in the TXT data of the domain, the check
\* raises when a byte string of the TXT answer is not UTF-8; otherwise it
\* returns at the existence rule with points = 0, the single error message
\* "No SPF record found", one remediation, no raw record and empty parsed data:
\* the record is never parsed and no syntax error is recorded.
C4_NoSpfRecordFound ==
  NoSpfPrefix =>
    /\ pc \notin (SpfPcs \ {"spf_ret"})
    /\ SpfRaised => ~Decodable(dns, Domain)
    /\ pc = "spf_ret" =>
         /\ Decodable(dns, Domain)
         /\ cur.points = 0
         /\ cur.messages = <<[level |-> "error", text |-> "No SPF record found"]>>
         /\ Len(cur.remediation) = 1
         /\ cur.raw_records = <<>>
         /\ cur.parsed_data = EmptyDict

\* the check returns for a TXT answer that holds records, none with the prefix
C4_UnprefixedReturned ==
  /\ pc = "spf_ret"
  /\ NoSpfPrefix
  /\ Lookup(dns, "TXT", Domain).kind = "answer"
  /\ Len(Lookup(dns, "TXT", Domain).rrs) = 2
  /\ cur.points = 0

(***************************************************************************)
(* C5                                                                      *)
(***************************************************************************)
\* the TXT records at _dmarc.<domain> that start with v=dmarc1
DmarcFound == PrefixedRecords(dns, "_dmarc." \o Domain, "v=dmarc1")

DmarcLaterPcs ==
  {"dmarc_policy", "dmarc_rua", "dmarc_align", "dmarc_fo", "dmarc_pct", "dmarc_sp"}

DuplicateAdvice == "Remove duplicate DMARC records, keep only one"

\* the points that the rules after existence give to a tag map
LaterRulePoints(tags) ==
  LET p == lower(DictGet(tags, "p", ""))
      rua == _parse_uris(DictGet(tags, "rua", ""))
      strict == {t \in {"adkim", "aspf"} : lower(DictGet(tags, t, "r")) = "s"}
      fo == DictGet(tags, "fo", "0")
      pct == int(DictGet(tags, "pct", "100"))
      sp == lower(DictGet(tags, "sp", ""))
  IN (IF p = "reject" THEN DMARC_POINTS_REJECT
      ELSE IF p = "quarantine" THEN DMARC_POINTS_QUARANTINE ELSE 0)
     + (IF rua # <<>> THEN DMARC_POINTS_RUA ELSE 0)
     + (IF Cardinality(strict) = 2 THEN DMARC_POINTS_STRICT_BOTH
        ELSE IF Cardinality(strict) = 1 THEN DMARC_POINTS_STRICT_ONE ELSE 0)
     + (IF \E c \in {"1", "s", "d"} : contains(fo, c) THEN DMARC_POINTS_FO ELSE 0)
     + (IF ~pct.ok \/ pct.val = 100 THEN DMARC_POINTS_PCT_100
        ELSE IF pct.val > 0 THEN DMARC_POINTS_PCT_PARTIAL ELSE 0)
     + (IF sp # "" /\ (sp = p \/ sp \in {"reject", "quarantine", "none"})
        THEN DMARC_POINTS_SP ELSE 0)

\* C5: with two or more v=dmarc1 records at _dmarc.<domain> the 10 existence
\* points are not awarded and the remove-duplicates remediation is added, while
\* the first record is parsed into the tag map and scored by every later rule;
\* with exactly one such record the 10 existence points are awarded.
C5_DuplicateDmarc ==
  LET n == Len(DmarcFound)
      existence == IF n = 1 THEN 10 ELSE 0
      tags == _parse_dmarc(DmarcFound[1])
  IN /\ pc \in DmarcLaterPcs => n >= 1
     /\ (pc \in DmarcLaterPcs \cup {"dmarc_ret"} /\ n >= 1) =>
          /\ cur.raw_records = DmarcFound
          /\ (n >= 2) = InList(DuplicateAdvice, cur.remediation)
          /\ \A t \in DOMAIN tags :
               /\ t \in DOMAIN cur.parsed_data
               /\ t \in {"adkim", "aspf", "pct", "sp"} \/ cur.parsed_data[t] = tags[t]
     /\ pc = "dmarc_policy" =>
          /\ cur.points = existence
          /\ cur.parsed_data = tags
     /\ (pc = "dmarc_ret" /\ n >= 1) =>
          /\ cur.points = existence + LaterRulePoints(tags)
          /\ Len(cur.messages) = 7

\* the check returns for two copies of the record that earns every rule
C5_DuplicateFullReturned ==
  /\ pc = "dmarc_ret"
  /\ DmarcFound = <<DmarcFull, DmarcFull>>
  /\ cur.points = 32
  /\ InList(DuplicateAdvice, cur.remediation)
  /\ cur.parsed_data["p"] = "reject"

(***************************************************************************)
(* C6                                                                      *)
(***************************************************************************)
ExampleDmarcRecord == "v=DMARC1; p=reject; rua=mailto:"

\* C6: when no TXT record at _dmarc.<domain> starts with v=dmarc1, a failed
\* query included, DMARCChecker.check returns points = 0 with a remediation that
\* holds the example record text, and no later rule adds a message, a
\* remediation or points.
C6_NoDmarcRecord ==
  DmarcFound = <<>> =>
    /\ pc \notin DmarcLaterPcs
    /\ pc = "dmarc_ret" =>
         /\ cur.points = 0
         /\ cur.messages = <<[level |-> "error", text |-> "No DMARC record found"]>>
         /\ Len(cur.remediation) = 1
         /\ contains(cur.remediation[1], ExampleDmarcRecord)
         /\ cur.parsed_data = EmptyDict
    /\ pc \in {"finalize", "done"} => result.checks["dmarc"].points = 0

\* the check returns for an answer whose records lack the prefix
C6_UnprefixedDmarcReturned ==
  /\ pc = "dmarc_ret"
  /\ DmarcFound = <<>>
  /\ Lookup(dns, "TXT", "_dmarc." \o Domain).kind = "answer"
  /\ cur.points = 0
  /\ Len(cur.remediation) = 1

(***************************************************************************)
(* C7                                                                      *)
(***************************************************************************)
Snap(bits) ==
  IF bits >= 2000 THEN 2048 ELSE IF bits >= 1000 THEN 1024
  ELSE IF bits >= 500 THEN 512 ELSE bits

\* padded base64 text: whole groups of four, "=" only as the last one or two
IsPaddedKey(k) ==
  /\ Len(k) > 0
  /\ Len(k) % 4 = 0
  /\ \A i \in Places(k, "=") : i >= Len(k) - 1
  /\ (Len(k) - 1) \in Places(k, "=") => Len(k) \in Places(k, "=")

\* the number of bytes a padded base64 text stands for
PaddedBytes(k) == 3 * (Len(k) \div 4) - Cardinality(Places(k, "="))

\* the key length claimed for a DKIM record
ClaimedKeyLength(record) ==
  LET m == searchKey(record)
  IN IF m = None THEN 0
     ELSE IF IsPaddedKey(m[1]) THEN Snap(8 * PaddedBytes(m[1]))
     ELSE LET d == b64decode(m[1]) IN IF d.ok THEN Snap(8 * d.len) ELSE 0

\* C7: the key length of a discovered record whose p= value decodes to n bytes is
\* 8n snapped to 2048 (>= 2000), 1024 (>= 1000), 512 (>= 500), else 8n, and 0
\* when p= is absent, empty or undecodable; the key rule takes the maximum over
\* the discovered selectors and awards +8 for 2048, +4 for 1024, +0 otherwise,
\* with the 'could not determine' warning for 0.
C7_KeyLength ==
  pc = "dkim_provider" =>
    LET lengths == cur.parsed_data["key_lengths"]
        longest == cur.parsed_data["max_key_length"]
        award == IF longest = 2048 THEN 8 ELSE IF longest = 1024 THEN 4 ELSE 0
    IN /\ DOMAIN lengths = DOMAIN loc.selector_records
       /\ \A sel \in DOMAIN lengths :
            lengths[sel] = ClaimedKeyLength(loc.selector_records[sel])
       /\ longest = Max({lengths[sel] : sel \in DOMAIN lengths})
       /\ cur.points = DKIM_POINTS_SELECTOR_EXISTS + award
       /\ longest = 0 =>
            LastMessage(cur) = [level |-> "warning",
                                text |-> "Could not determine DKIM key length"]
       /\ longest \notin {0, 1024, 2048} => LastMessage(cur).level = "error"

\* the key rule has scored a record whose p= value decodes to 256 bytes
C7_Key256Scored ==
  /\ pc = "dkim_provider"
  /\ loc.selector_records = ("default" :> DkimRecord(KeyOf(256)))
  /\ PaddedBytes(KeyOf(256)) = 256
  /\ cur.parsed_data["max_key_length"] = 2048
  /\ cur.points = 13

(***************************************************************************)
(* C8                                                                      *)
(***************************************************************************)
\* the MX query of the domain gives no record
ZeroMx ==
  LET out == Lookup(dns, "MX", Domain) IN out.kind # "answer" \/ out.rrs = <<>>

\* C8: with zero MX records mx.points = 0 and the SPF, DKIM and DMARC checkers
\* still run; a returned ScanResult holds exactly the four controls, whatever
\* checker returned early.
C8_AllControlsRun ==
  /\ (ZeroMx /\ pc = "mx_ret") => cur.points = 0
  /\ (ZeroMx /\ "mx" \in DOMAIN result.checks) => result.checks["mx"].points = 0
  /\ pc \in {"finalize", "done"} => DOMAIN result.checks = AllControls

\* a scan without MX records returns with points of the DMARC control
C8_NoMxScanReturned ==
  /\ pc = "done"
  /\ ZeroMx
  /\ result.checks["mx"].points = 0
  /\ Len(result.checks["mx"].messages) = 1
  /\ result.checks["dmarc"].points = 42

(***************************************************************************)
(* C9                                                                      *)
(***************************************************************************)
ClaimedGrade(score) ==
  IF score >= 95 THEN "A+" ELSE IF score >= 90 THEN "A" ELSE IF score >= 80 THEN "B"
  ELSE IF score >= 70 THEN "C" ELSE IF score >= 60 THEN "D"
  ELSE IF score >= 50 THEN "E" ELSE "F"

GradeRank(grade) ==
  CASE grade = "F" -> 0 [] grade = "E" -> 1 [] grade = "D" -> 2 [] grade = "C" -> 3
    [] grade = "B" -> 4 [] grade = "A" -> 5 [] grade = "A+" -> 6

GradeColors ==
  ("A+" :> "#00c853") @@ ("A" :> "#00e676") @@ ("B" :> "#2979ff") @@ ("C" :> "#ffea00")
    @@ ("D" :> "#ff9100") @@ ("E" :> "#ff6d00") @@ ("F" :> "#ff1744")

\* C9: calculate_grade maps a score in 0..100 to the grade of the highest
\* threshold it reaches (>= 95 A+, 90..94 A, 80..89 B, 70..79 C, 60..69 D,
\* 50..59 E, 0..49 F), is monotone in the score, and a finalized ScanResult has
\* the grade and the grade colour of its score.
C9_Grades ==
  /\ call.ret # None =>
       /\ call.ret[1] = ClaimedGrade(call.arg[1])
       /\ \A lower_score \in 0..call.arg[1] :
            GradeRank(calculate_grade(lower_score)) <= GradeRank(call.ret[1])
  /\ pc = "done" =>
       /\ result.grade = ClaimedGrade(result.score)
       /\ result.grade_color = GradeColors[result.grade]

\* calculate_grade(95) has returned next to a finished scan of score 90
C9_BoundaryGraded ==
  /\ call.arg = Some(95)
  /\ call.ret = Some("A+")
  /\ pc = "done"
  /\ result.score = 90
  /\ result.grade = "A"

(***************************************************************************)
(* C10                                                                     *)
(***************************************************************************)
\* C10: two scans of the domain against the same DNS state return ScanResults
\* that are equal in every field, for every order in which the MX checker's
\* concurrent host lookups complete.
C10_SameResult ==
  pc = "done" => \A i \in 1..Len(prev) : prev[i] = Some(result)

\* two scans returned the same score with their resolved hosts in another order
C10_OrderDiffers ==
  /\ pc = "done"
  /\ Len(prev) >= 1
  /\ prev[1] # None
  /\ prev[1][1].score = result.score
  /\ DictGet(prev[1][1].checks["mx"].parsed_data, "resolved_hosts", <<>>)
       = <<"mx1.ex.com", "mx2.ex.com">>
  /\ DictGet(result.checks["mx"].parsed_data, "resolved_hosts", <<>>)
       = <<"mx2.ex.com", "mx1.ex.com">>

(***************************************************************************)
(* C11                                                                     *)
(***************************************************************************)
\* number of occurrences of x in a list
Count(list, x) == Cardinality({i \in 1..Len(list) : list[i] = x})

\* the zone holds an A or an AAAA record for the host
HasAddress(z, h) ==
  \E t \in {"A", "AAAA"} : Lookup(z, t, h).kind = "answer" /\ Lookup(z, t, h).rrs # <<>>

\* the exchange of every MX record of the zone, without the trailing dot
AdvertisedHosts(z) ==
  LET out == Lookup(z, "MX", Domain)
  IN [i \in 1..Len(out.rrs) |-> rstrip(out.rrs[i].exchange, ".")]

\* the MX checker has collected every lookup and returned
MxCollected == pc = "mx_ret" /\ "resolved_hosts" \in DOMAIN cur.parsed_data

\* C11: when the MX checker has collected its concurrent lookups, in whatever
\* order they completed, every advertised host is in resolved_hosts or in
\* unresolved_hosts as many times as it is advertised and in no other list:
\* in resolved_hosts iff it has an A or AAAA record; the lists are disjoint and
\* hold nothing else.
C11_ExactlyOnce ==
  MxCollected =>
    LET resolved == cur.parsed_data["resolved_hosts"]
        unresolved == cur.parsed_data["unresolved_hosts"]
        hosts == AdvertisedHosts(dns)
        named == {hosts[i] : i \in 1..Len(hosts)}
    IN /\ \A h \in named :
            /\ Count(resolved, h) + Count(unresolved, h) = Count(hosts, h)
            /\ Count(resolved, h) > 0 <=> HasAddress(dns, h)
            /\ Count(unresolved, h) > 0 <=> ~HasAddress(dns, h)
       /\ Len(resolved) + Len(unresolved) = Len(hosts)
       /\ \A i \in 1..Len(resolved) : resolved[i] \in named /\ Count(unresolved, resolved[i]) = 0
       /\ \A i \in 1..Len(unresolved) : unresolved[i] \in named

\* six lookups over five workers were collected: five resolved, one dangling
C11_SixCollected ==
  /\ MxCollected
  /\ cur.parsed_data["resolved_hosts"] = <<Mx1, Mx1, Mx1, Mx1, Mx1>>
  /\ cur.parsed_data["unresolved_hosts"] = <<Mx2>>
  /\ Len(AdvertisedHosts(dns)) = 6

(***************************************************************************)
(* C12                                                                     *)
(***************************************************************************)
\* the selectors the DKIM checker probes in a zone
ProbedSelectors(z) ==
  IF detect(resolve_mx(z, Domain)) = "microsoft365"
  THEN M365_DKIM_SELECTORS ELSE COMMON_DKIM_SELECTORS

\* the name whose TXT records are read for a selector: the target of the
\* selector's CNAME if it has one
DkimTxtName(z, sel) ==
  LET out == Lookup(z, "CNAME", DkimName(sel))
  IN IF out.kind = "answer" /\ out.rrs # <<>> /\ rstrip(out.rrs[1], ".") # ""
     THEN rstrip(out.rrs[1], ".") ELSE DkimName(sel)

\* the names whose TXT records a scan of the zone reads
ReadTxtNames(z) ==
  {Domain, "_dmarc." \o Domain}
    \cup {DkimTxtName(z, ProbedSelectors(z)[i]) : i \in 1..Len(ProbedSelectors(z))}

\* C12: no public operation of the resolver raises, whatever the outcome of
\* the underlying query (no answer, NXDOMAIN, no nameservers, timeout, malformed
\* response, TXT bytes that cannot be decoded): the TXT operations return for
\* every name a scan reads, and no scan fails on a resolver call.
C12_ResolverNeverRaises ==
  /\ pc = "scan" =>
        /\ \A name \in ReadTxtNames(dns) : ~resolve_txt(dns, name).raised
        /\ ~get_spf_record(dns, Domain).raised
        /\ ~get_dmarc_record(dns, Domain).raised
        /\ \A i \in 1..Len(ProbedSelectors(dns)) :
              ~get_dkim_record(dns, Domain, ProbedSelectors(dns)[i],
                 get_dkim_record(dns, Domain, ProbedSelectors(dns)[i], None).txt_name).raised
  /\ pc # "failed"

\* get_spf_record raised on a TXT answer whose bytes are not UTF-8, and the
\* scan failed with it
C12_UndecodableTxtRaised ==
  /\ pc = "failed"
  /\ Lookup(dns, "TXT", Domain).kind = "answer"
  /\ ~Decodable(dns, Domain)
  /\ get_spf_record(dns, Domain).raised
  /\ DOMAIN result.checks = {"mx"}

(***************************************************************************)
(* C13                                                                     *)
(***************************************************************************)
\* some checker raises in a scan of the zone
SomeCheckerRaises(z) == \E name \in ReadTxtNames(z) : ~Decodable(z, name)

\* C13: a scan in which a checker raises is never finalized and returns no
\* ScanResult: its outcome is recorded as a failure (None), the CheckResult in
\* construction is dropped and the results stored before the exception are
\* not returned; a scan fails only when a checker raised.
C13_FailedScanReturnsNothing ==
  /\ SomeCheckerRaises(dns) =>
        /\ pc \notin {"finalize", "done"}
        /\ \A i \in 1..Len(prev) : prev[i] = None
  /\ pc = "failed" => SomeCheckerRaises(dns) /\ cur = NoCheck
  /\ \A i \in 1..Len(prev) :
        prev[i] # None => DOMAIN prev[i][1].checks = AllControls /\ ~SomeCheckerRaises(dns)

\* the DMARC checker raised in the second scan, after three results were
\* stored; the first scan of the zone was recorded as failed
C13_FailedAfterThreeResults ==
  /\ pc = "failed"
  /\ DOMAIN result.checks = {"mx", "spf", "dkim"}
  /\ result.checks["spf"].points = 25
  /\ result.score = 0
  /\ prev = <<None>>

(***************************************************************************)
(* C14                                                                     *)
(***************************************************************************)
\* the threads that are in the middle of a host_exists call on the resolver
\* instance r
ResolverUsers(r) ==
  {WorkerThread(k) : k \in {t \in BusyThreads : loc.resolver = r}}

\* C14: no resolver instance is used by two threads at the same time, and
\* every thread that runs a query runs it on the resolver of its own thread.
C14_ResolverConfined ==
  pc = "mx_lookup" =>
    /\ Cardinality(ResolverUsers(loc.resolver)) <= 1
    /\ \A t \in ResolverUsers(loc.resolver) : loc.resolver = get_resolver(t)

\* the five threads of the pool are all in the middle of a lookup on the
\* resolver of the scan thread; one of them has run an earlier lookup of the
\* six before its present one
C14_FiveWorkersOneResolver ==
  /\ pc = "mx_lookup"
  /\ Len(loc.mx_records) = 6
  /\ loc.resolver = get_resolver(ScanThread)
  /\ DOMAIN loc.asked_a = 2..6
  /\ 1 \in DOMAIN loc.done
  /\ ResolverUsers(get_resolver(ScanThread)) = {WorkerThread(k) : k \in 1..MX_max_workers}

(***************************************************************************)
(* C15                                                                     *)
(***************************************************************************)
\* the host lookups of the MX checker: how many hosts, how many lookups were
\* issued (handed to a worker) and how many have completed
MxLookups ==
  LET n == Len(loc.mx_records)
      completed == Cardinality(DOMAIN loc.done)
  IN [hosts |-> n, completed |-> completed,
      issued |-> completed + Cardinality(RunningLookups)]

\* the host lookups of the SPF host-resolution check; a lookup between its A
\* query and its AAAA query is issued and has not completed
SpfLookups ==
  LET checked == DictGet(loc, "checked", 0)
  IN [hosts |-> Len(DictGet(cur.parsed_data, "hosts_to_check", <<>>)),
      completed |-> checked,
      issued |-> checked + (IF DictGet(loc, "asked_a", FALSE) THEN 1 ELSE 0)]

\* fan-out: when a lookup has completed, the lookups of its siblings were
\* issued already, as far as the pool has workers; never more than
\* MX_max_workers lookups are in flight
FanOut(l) ==
  /\ l.completed > 0 => l.issued = Min({l.hosts, MX_max_workers + l.completed})
  /\ l.issued - l.completed <= MX_max_workers

MxFanOut == pc = "mx_lookup" => FanOut(MxLookups)

SpfFanOut == pc = "spf_hosts" => FanOut(SpfLookups)

\* fan-in: the all-hosts-resolve rule is decided when every lookup completed
MxFanIn == MxCollected => MxLookups.completed = MxLookups.hosts

SpfFanIn ==
  (pc \in {"spf_terminal", "spf_hygiene"}
     \/ (pc = "spf_ret" /\ "unresolved_hosts" \in DOMAIN cur.parsed_data))
    => SpfLookups.completed = SpfLookups.hosts

\* C15: in the MX checker and in the SPF host-resolution check the lookups of
\* all hosts are issued without waiting on one another (over at most five
\* workers), no lookup blocks or cancels another, and the all-hosts-resolve
\* points are decided only after every lookup has completed.
C15_FanOutFanIn == MxFanOut /\ MxFanIn /\ SpfFanOut /\ SpfFanIn

\* the SPF check has looked up the first of its three hosts and has not yet
\* issued the lookups of the other two
C15_SpfLookupsOneByOne ==
  /\ pc = "spf_hosts"
  /\ SpfLookups = [hosts |-> 3, completed |-> 1, issued |-> 1]
  /\ DictGet(loc, "unresolved", <<>>) = <<>>

(***************************************************************************)
(* C16                                                                     *)
(***************************************************************************)
\* the (priority, host) pairs the MX checker stored in its parsed_data
StoredMxRecords(r) ==
  LET records == DictGet(r.parsed_data, "records", <<>>)
  IN [i \in 1..Len(records) |-> <<records[i].priority, records[i].host>>]

\* the MX question has one answer in a scan: the provider scan() detected is
\* the provider of the records the MX checker saw
MxAnswerFinal ==
  "mx" \in DOMAIN result.checks =>
     result.provider = detect(StoredMxRecords(result.checks["mx"]))

\* the CNAME question of a selector has one answer in a scan: an M365 selector
\* that discovery found through its CNAME (it has no TXT record under its own
\* name) has that CNAME in the delegation check
CnameAnswerFinal ==
  (pc = "dkim_ret" /\ "m365_cnames" \in DOMAIN cur.parsed_data) =>
     \A i \in 1..Len(cur.parsed_data["discovered_selectors"]) :
        LET sel == cur.parsed_data["discovered_selectors"][i]
        IN Lookup(dns, "TXT", DkimName(sel)).kind # "answer"
             => sel \in DOMAIN cur.parsed_data["m365_cnames"]

\* C16: within one scan the outcome of a DNS query is final: no question is
\* asked twice, so no two steps of a scan see different answers to the MX
\* question (provider detection, MX checker) or to a selector's CNAME question
\* (DKIM discovery, M365 delegation check).
C16_AnswersFinal == MxAnswerFinal /\ CnameAnswerFinal

\* scan() saw the Microsoft-365 MX record, the MX checker saw no MX record,
\* and the scan was finalized with both
C16_ProviderWithoutMx ==
  /\ pc = "done"
  /\ result.provider = "microsoft365"
  /\ result.checks["mx"].points = 0
  /\ LastMessage(result.checks["mx"]).text = "No MX records found"
  /\ result.checks["dkim"].parsed_data["is_m365"]

(***************************************************************************)
(* C17                                                                     *)
(***************************************************************************)
\* the static pattern table as the claim names it
ClaimedPatterns ==
  << <<".mail.protection.outlook.com", "microsoft365">>,
     <<".google.com", "google_workspace">>,
     <<".googlemail.com", "google_workspace">>,
     <<"aspmx.l.google.com", "google_workspace">> >>

\* a pattern without its leading dot
Undotted(pattern) ==
  IF Len(pattern) > 0 /\ SubSeq(pattern, 1, 1) = "." THEN SubSeq(pattern, 2, Len(pattern))
  ELSE pattern

\* the host name, compared in lower case, has the pattern as a suffix; with
\* bare, being the pattern without its leading dot counts too
MatchesClaimed(host, pattern, bare) ==
  LET h == lower(host)
  IN \/ (Len(h) >= Len(pattern)
          /\ SubSeq(h, Len(h) - Len(pattern) + 1, Len(h)) = pattern)
     \/ (bare /\ h = Undotted(pattern))

\* the indexes of the MX records of the zone whose host matches some pattern
MatchingRecords(z, bare) ==
  LET hosts == AdvertisedHosts(z)
  IN {i \in 1..Len(hosts) :
        \E j \in 1..Len(ClaimedPatterns) : MatchesClaimed(hosts[i], ClaimedPatterns[j][1], bare)}

\* the provider of the first matching record in ascending priority order
\* (records of one priority in the order of the answer); unknown if none
ClaimedProvider(z, bare) ==
  LET rrs == Lookup(z, "MX", Domain).rrs
      hosts == AdvertisedHosts(z)
      M == MatchingRecords(z, bare)
  IN IF M = {} THEN "unknown"
     ELSE LET first == CHOOSE i \in M : \A k \in M :
                          \/ rrs[i].preference < rrs[k].preference
                          \/ (rrs[i].preference = rrs[k].preference /\ i <= k)
              j == Min({k \in 1..Len(ClaimedPatterns) :
                          MatchesClaimed(hosts[first], ClaimedPatterns[k][1], bare)})
          IN ClaimedPatterns[j][2]

\* scan() has detected the provider
ProviderDetected == pc # "scan"

\* C17 as stated: the provider is that of the first MX record, in ascending
\* priority order, whose host name has a suffix in the pattern table; records
\* that match no pattern are skipped; unknown iff there is no record or no
\* record has such a suffix.
C17_FirstSuffixMatch == ProviderDetected => provider = ClaimedProvider(dns, FALSE)

\* C17 amended: the provider is that of the first MX record, in ascending
\* priority order, whose host name, in lower case, ends with a pattern of the
\* table or is a pattern without its leading dot; records that match no
\* pattern are skipped; unknown iff there is no record or no record matches;
\* the ScanResult reports that provider.
C17_FirstPatternMatch ==
  ProviderDetected =>
    /\ provider = ClaimedProvider(dns, TRUE)
    /\ result.provider = provider
    /\ provider = "unknown" <=> MatchingRecords(dns, TRUE) = {}

\* the detector skipped two hosts that match nothing and took the third,
\* google.com, which is a pattern without its dot and has no pattern as suffix
C17_BareGoogleDetected ==
  /\ ProviderDetected
  /\ AdvertisedHosts(dns) = <<"google.com", Mx2, Mx1>>
  /\ provider = "google_workspace"
  /\ MatchingRecords(dns, FALSE) = {}

(***************************************************************************)
(* C18                                                                     *)
(***************************************************************************)
\* the remediation list of a control of the scan, empty while it is not stored
StoredRemediation(control) ==
  IF control \in DOMAIN result.checks THEN result.checks[control].remediation ELSE <<>>

\* C18: the flattened remediation list of a ScanResult is the concatenation of
\* the remediation lists of its mx, spf, dkim and dmarc results, in that order,
\* each in its own order, with nothing added, dropped or duplicated; this
\* holds after every checker and for the returned ScanResult.
C18_RemediationInOrder ==
  /\ result.all_remediation =
        StoredRemediation("mx") \o StoredRemediation("spf")
          \o StoredRemediation("dkim") \o StoredRemediation("dmarc")
  /\ pc = "done" => DOMAIN result.checks = AllControls

\* a returned scan in which every control gave advice
C18_AdviceOfEveryControl ==
  /\ pc = "done"
  /\ \A c \in AllControls : Len(result.checks[c].remediation) >= 1
  /\ result.all_remediation[1] = "Fix or remove dangling MX records: mx1.ex.com"
  /\ result.all_remediation[2] = "Change ~all to -all for stricter enforcement"
  /\ Len(result.all_remediation) >= 5

(***************************************************************************)
(* C19                                                                     *)
(***************************************************************************)
\* the advertised hosts without an A or AAAA record
DanglingHosts(z) ==
  {AdvertisedHosts(z)[i] : i \in {k \in 1..Len(AdvertisedHosts(z)) :
                                    ~HasAddress(z, AdvertisedHosts(z)[k])}}

\* C19: the MX checker returns 5 points iff the domain has an MX record, and 5
\* more iff every advertised host has an A or AAAA record, so 0, 5 or 10; with
\* no MX record it returns without any host lookup; with a dangling host its
\* remediation names exactly the hosts that do not resolve.
C19_MxPoints ==
  LET hosts == AdvertisedHosts(dns)
      named == {hosts[i] : i \in 1..Len(hosts)}
  IN /\ pc = "mx_lookup" => hosts # <<>>
     /\ pc = "mx_ret" =>
          /\ cur.points = (IF hosts # <<>> THEN 5 ELSE 0)
                            + (IF hosts # <<>> /\ DanglingHosts(dns) = {} THEN 5 ELSE 0)
          /\ cur.points \in {0, 5, 10}
          /\ hosts = <<>> =>
                /\ loc = NoLocals
                /\ "resolved_hosts" \notin DOMAIN cur.parsed_data
                /\ cur.remediation = <<"Add MX records to enable email delivery">>
          /\ (hosts # <<>> /\ DanglingHosts(dns) = {}) => cur.remediation = <<>>
          /\ DanglingHosts(dns) # {} =>
                /\ Len(cur.remediation) = 1
                /\ cur.remediation[1] =
                      "Fix or remove dangling MX records: "
                        \o join(", ", cur.parsed_data["unresolved_hosts"])
                /\ \A h \in named :
                      contains(cur.remediation[1], h) <=> h \in DanglingHosts(dns)

\* two hosts, one of them dangling: 5 points and advice that names that host
C19_OneDanglingNamed ==
  /\ pc = "mx_ret"
  /\ AdvertisedHosts(dns) = <<Mx2, Mx1>>
  /\ DanglingHosts(dns) = {Mx2}
  /\ cur.points = 5
  /\ cur.remediation = <<"Fix or remove dangling MX records: mx2.ex.com">>

(***************************************************************************)
(* C20                                                                     *)
(***************************************************************************)
\* the amounts the rules of a control award
RuleAmounts ==
  [mx |-> {5}, spf |-> {2, 3, 4, 5, 6}, dkim |-> {4, 5, 8}, dmarc |-> {1, 2, 3, 5, 10, 15}]

\* a step of a checker: the result in construction before and after it
PointsStep ==
  \/ cur' = NoCheck
  \/ /\ cur = NoCheck
     /\ cur' # NoCheck
     /\ cur'.points \in {0} \cup RuleAmounts[cur'.control]
  \/ /\ cur # NoCheck
     /\ cur' # NoCheck
     /\ cur'.control = cur.control
     /\ \/ cur'.points = cur.points
        \/ cur'.points - cur.points \in RuleAmounts[cur.control]
        \/ /\ cur.control = "spf"
           /\ pc = "spf_plusall"
           /\ DictGet(cur.parsed_data, "terminal", None) = Some("+all")
           /\ cur'.points = 0
           /\ pc' = "spf_ret"

\* C20: in every checker invocation points starts at 0 and every step leaves
\* it unchanged or adds one rule's amount; the only step that lowers it is the
\* SPF "+all" reset, which sets it to 0 and is followed at once by the return
\* of the result; no MX, DKIM or DMARC step lowers it.
C20_PointsAccumulate == [][PointsStep]_vars

\* the SPF checker has taken back the existence points of a "+all" record and
\* returned
C20_PlusAllReset ==
  /\ pc = "spf_ret"
  /\ cur.points = 0
  /\ cur.messages[1] = [level |-> "success", text |-> "SPF record found"]
  /\ Len(cur.messages) = 2
  /\ LastMessage(cur).level = "error"
  /\ DictGet(cur.parsed_data, "terminal", None) = Some("+all")

(***************************************************************************)
(* C21                                                                     *)
(***************************************************************************)
\* the SPF checker has found a record and parsed it
SpfParsed ==
  cur # NoCheck /\ cur.control = "spf" /\ pc \in SpfPcs /\ cur.raw_records # <<>>

\* the first whitespace-separated token of the record, in lower case
VersionToken(record) ==
  LET toks == splitWs(record) IN IF toks = <<>> THEN "" ELSE lower(toks[1])

HasMessageText(r, text) == \E i \in 1..Len(r.messages) : r.messages[i].text = text

\* C21: an SPF record is accepted only when its first whitespace-separated
\* token equals "v=spf1" case-insensitively; with any other first token (such
\* as "v=spf10") the whole record is a syntax error: no mechanism and no
\* terminal is parsed and the syntax-validity points are not awarded.
C21_VersionTokenExact ==
  (SpfParsed /\ VersionToken(cur.raw_records[1]) # "v=spf1") =>
    /\ cur.parsed_data.mechanisms = <<>>
    /\ cur.parsed_data.terminal = None
    /\ cur.parsed_data.syntax_errors = <<"Missing or invalid v=spf1">>
    /\ ~HasMessageText(cur, "SPF syntax is valid")

\* the record "v=spf10 -all" was parsed as an SPF record and got every point
C21_Spf10Accepted ==
  /\ pc = "spf_ret"
  /\ cur.raw_records = <<"v=spf10 -all">>
  /\ cur.parsed_data.terminal = Some("-all")
  /\ cur.parsed_data.syntax_errors = <<>>
  /\ HasMessageText(cur, "SPF syntax is valid")
  /\ cur.points = 25

(***************************************************************************)
(* C22                                                                     *)
(***************************************************************************)
PctWarning == [level |-> "warning", text |-> "pct=0 means policy is not being applied"]

\* the step of the pct rule: the integer it read and the points it awarded
PctStep ==
  (pc = "dmarc_pct" /\ pc' = "dmarc_sp") =>
    LET pct == cur'.parsed_data["pct"]
        awarded == cur'.points - cur.points
        warned == LastMessage(cur') = PctWarning /\ Len(cur'.messages) = Len(cur.messages) + 1
    IN /\ pct = Pct(cur.parsed_data)
       /\ ("pct" \notin DOMAIN cur.parsed_data \/ ~int(cur.parsed_data["pct"]).ok) => pct = 100
       /\ awarded = 2 <=> pct = 100
       /\ awarded = 1 <=> (0 < pct /\ pct < 100)
       /\ (awarded = 0 /\ warned) <=> pct = 0
       /\ awarded \in {0, 1, 2}

\* C22: for the integer value of pct (100 when the tag is absent or is not an
\* integer) the DMARC pct rule awards 2 points iff pct = 100, 1 point iff
\* 0 < pct < 100, and no point with the "policy not applied" warning iff
\* pct = 0; it never awards more than 2, and awards 1 for no value outside 1..99.
C22_PctRule == [][PctStep]_vars

\* a record with pct=101 was returned with the point of a partial rollout
C22_Pct101Rewarded ==
  /\ pc = "dmarc_ret"
  /\ cur.raw_records = <<"v=DMARC1; p=reject; p=none; sp=bar; pct=101; x=y=z">>
  /\ cur.parsed_data["pct"] = 101
  /\ HasMessageText(cur, "Policy applies to 101% of messages (rollout mode)")
  /\ cur.points = DMARC_POINTS_EXISTS + DMARC_POINTS_PCT_PARTIAL

(***************************************************************************)
(* C23                                                                     *)
(***************************************************************************)
ValidSubdomainPolicies == {"reject", "quarantine", "none"}

\* the step of the sp rule: the points it awarded and the message it wrote
SpStep ==
  (pc = "dmarc_sp" /\ pc' = "dmarc_ret") =>
    LET sp == lower(DictGet(cur.parsed_data, "sp", ""))
        parent == Policy(cur.parsed_data)
        awarded == cur'.points - cur.points
        said == LastMessage(cur')
    IN /\ Len(cur'.messages) = Len(cur.messages) + 1
       /\ awarded = 2 <=> sp \in ValidSubdomainPolicies
       /\ awarded \in {0, 2}
       /\ sp \in ValidSubdomainPolicies =>
            said.level = (IF sp = parent \/ (parent = "" /\ sp = "none")
                          THEN "success" ELSE "info")
       /\ sp = "" => said.level # "warning"
       /\ (sp # "" /\ sp \notin ValidSubdomainPolicies) =>
            said = [level |-> "warning", text |-> "Invalid subdomain policy: sp=" \o sp]

\* C23: the DMARC sp rule awards 2 points iff sp is present and is one of
\* reject, quarantine, none (with a success message when it equals the parent
\* policy, or the parent policy is absent and sp is none, and an informational
\* message when it differs); it awards nothing and does not warn when sp is
\* absent, and awards nothing and warns when sp is present with any other
\* value, whatever the parent p tag holds, the same invalid value included.
C23_SpRule == [][SpStep]_vars

\* the record with p=foo and sp=foo was returned with the points of the sp rule
C23_InvalidSpRewarded ==
  /\ pc = "dmarc_ret"
  /\ cur.raw_records = <<"v=DMARC1; p=foo; sp=foo; pct=-5; fo=">>
  /\ HasMessageText(cur, "DMARC policy (p=) not specified or invalid")
  /\ LastMessage(cur) = [level |-> "success", text |-> "Subdomain policy (sp=foo) is set"]
  /\ cur.points = DMARC_POINTS_EXISTS + DMARC_POINTS_SP

(***************************************************************************)
(* C24                                                                     *)
(***************************************************************************)
\* the mechanism name of a token that is not an "all" terminal: the text, after
\* one leading qualifier, before the first ":", else the first "=", else the first "/"
TokenName(tok) ==
  LET body == IF tok # "" /\ Char(tok, 1) \in {"+", "-", "~", "?"}
              THEN SubSeq(tok, 2, Len(tok)) ELSE tok
      cut(c) == SubSeq(body, 1, find(body, c) - 1)
  IN IF find(body, ":") # 0 THEN cut(":")
     ELSE IF find(body, "=") # 0 THEN cut("=")
     ELSE IF find(body, "/") # 0 THEN cut("/")
     ELSE body

IsTerminalToken(tok) == lower(tok) \in {"-all", "~all", "+all", "?all", "all"}

IsUnknownToken(tok) ==
  ~IsTerminalToken(tok)
    /\ lower(TokenName(tok)) \notin {VALID_SPF_MECHANISMS[i] : i \in 1..Len(VALID_SPF_MECHANISMS)}

\* the tokens after the version token
MechanismTokens(record) ==
  LET toks == splitWs(record) IN SubSeq(toks, 2, Len(toks))

UnknownTokens(record) == SelectSeq(MechanismTokens(record), IsUnknownToken)

\* the record without its unknown tokens
WithoutUnknown(record) ==
  join(" ", <<splitWs(record)[1]>>
              \o SelectSeq(MechanismTokens(record), LAMBDA t : ~IsUnknownToken(t)))

\* C24: an unknown mechanism name adds one syntax error and does not stop the
\* parse: the terminal, lookup count, duplicates, ptr flag, include count, host
\* list and mechanisms are those of the record with the unknown tokens taken
\* out, so every known mechanism before and after an unknown one is parsed and
\* the unknown token adds to none of those fields.
C24_UnknownSkipped ==
  SpfParsed =>
    LET record == cur.raw_records[1]
        unknown == UnknownTokens(record)
        clean == _parse_spf(WithoutUnknown(record))
        parsed == cur.parsed_data
    IN /\ parsed.syntax_errors =
            [i \in 1..Len(unknown) |-> "Unknown mechanism: " \o TokenName(unknown[i])]
       /\ clean.syntax_errors = <<>>
       /\ parsed.terminal = clean.terminal
       /\ parsed.lookup_count = clean.lookup_count
       /\ parsed.duplicates = clean.duplicates
       /\ parsed.has_ptr = clean.has_ptr
       /\ parsed.include_count = clean.include_count
       /\ parsed.hosts_to_check = clean.hosts_to_check
       /\ parsed.mechanisms = clean.mechanisms

\* a record with two unknown mechanisms between known ones was parsed to its end
C24_ParsedPastUnknown ==
  /\ pc = "spf_ret"
  /\ cur.raw_records =
       <<"v=spf1 a:mx1.ex.com foo mx:mx2.ex.com -bar:x include:y ptr a:mx1.ex.com -all">>
  /\ cur.parsed_data.syntax_errors = <<"Unknown mechanism: foo", "Unknown mechanism: bar">>
  /\ cur.parsed_data.terminal = Some("-all")
  /\ cur.parsed_data.lookup_count = 5
  /\ cur.parsed_data.duplicates = <<"a:mx1.ex.com">>
  /\ cur.parsed_data.has_ptr
  /\ cur.parsed_data.include_count = 1
  /\ cur.parsed_data.hosts_to_check = <<Mx1, Mx2, Mx1>>

(***************************************************************************)
(* C25                                                                     *)
(***************************************************************************)
\* the hostname an a or mx token names: the text between the first ":" and the
\* CIDR suffix; <<>> when the token names no host
NamedHost(tok) ==
  LET colon == find(tok, ":")
      target == SubSeq(tok, colon + 1, Len(tok))
      slash == find(target, "/")
      host == IF slash = 0 THEN target ELSE SubSeq(target, 1, slash - 1)
  IN IF ~IsTerminalToken(tok) /\ lower(TokenName(tok)) \in {"a", "mx"}
          /\ colon # 0 /\ host # ""
     THEN <<host>> ELSE <<>>

RECURSIVE namedHostsFrom(_, _)
namedHostsFrom(toks, i) ==
  IF i > Len(toks) THEN <<>> ELSE NamedHost(toks[i]) \o namedHostsFrom(toks, i + 1)

\* the hostnames named by the a and mx mechanisms of a record, in order
NamedHosts(record) == namedHostsFrom(MechanismTokens(record), 1)

\* the host rule of the SPF checker has been applied
SpfHostsScored ==
  SpfParsed /\ pc \in {"spf_terminal", "spf_hygiene", "spf_ret"}
    /\ "unresolved_hosts" \in DOMAIN cur.parsed_data

\* C25: the SPF host list holds exactly the hostnames named by the a and mx
\* mechanisms of the record (no target of include, exists, redirect or ptr, no
\* CIDR suffix and no mechanism name); the 3 points of host resolution are
\* awarded iff the list is empty or every host in it has an A or AAAA record,
\* and unresolved_hosts holds exactly the listed hosts that have neither.
C25_HostsToCheck ==
  /\ SpfParsed => cur.parsed_data.hosts_to_check = NamedHosts(cur.raw_records[1])
  /\ SpfHostsScored =>
       LET hosts == NamedHosts(cur.raw_records[1])
           dangling == SelectSeq(hosts, LAMBDA h : ~HasAddress(dns, h))
       IN /\ cur.parsed_data["unresolved_hosts"] = dangling
          /\ HasMessageText(cur, "All referenced hosts resolve") <=> dangling = <<>>

\* the record with "a/24" was returned: the token was queued as a host, did
\* not resolve and cost the 3 points
C25_CidrQueued ==
  /\ pc = "spf_ret"
  /\ cur.raw_records = <<"v=spf1 ip4:192.0.2.0/24 a/24 -all">>
  /\ cur.parsed_data.hosts_to_check = <<"a/24">>
  /\ cur.parsed_data["unresolved_hosts"] = <<"a/24">>
  /\ cur.remediation = <<"Fix or remove references to unresolved hosts: a/24">>
  /\ cur.points = SPF_max_points - SPF_POINTS_HOSTS_RESOLVE

(***************************************************************************)
(* C26                                                                     *)
(***************************************************************************)
\* the value of a mechanism token: the text after the first ":", else after
\* the first "=", else the whole token when it holds a "/"; "" when it has none
TokenValue(tok) ==
  LET body == IF tok # "" /\ Char(tok, 1) \in {"+", "-", "~", "?"}
              THEN SubSeq(tok, 2, Len(tok)) ELSE tok
      after(c) == SubSeq(body, find(body, c) + 1, Len(body))
  IN IF find(body, ":") # 0 THEN after(":")
     ELSE IF find(body, "=") # 0 THEN after("=")
     ELSE IF find(body, "/") # 0 THEN body
     ELSE ""

\* the known mechanisms of a record, as (mechanism, value) signatures in order
Signatures(record) ==
  LET known == SelectSeq(MechanismTokens(record),
                         LAMBDA t : ~IsTerminalToken(t) /\ ~IsUnknownToken(t))
  IN [i \in 1..Len(known) |-> <<lower(TokenName(known[i])), TokenValue(known[i])>>]

HasDuplicateSignature(record) ==
  LET sigs == Signatures(record)
  IN \E i, j \in 1..Len(sigs) : i < j /\ sigs[i] = sigs[j]

\* the number of mechanisms of a record that cost a DNS lookup
LookupMechanisms(record) ==
  LET sigs == Signatures(record)
  IN Cardinality({i \in 1..Len(sigs) :
                    sigs[i][1] \in {"include", "a", "mx", "ptr", "exists", "redirect"}})

MechanismCount(record, name) ==
  LET sigs == Signatures(record)
  IN Cardinality({i \in 1..Len(sigs) : sigs[i][1] = name})

\* the terminal of a record: its last "all" token, a bare "all" read as "+all"
RecordTerminal(record) ==
  LET toks == MechanismTokens(record)
      alls == {i \in 1..Len(toks) : IsTerminalToken(toks[i])}
      last == lower(toks[Max(alls)])
  IN IF alls = {} THEN None ELSE Some(IF last = "all" THEN "+all" ELSE last)

\* the points the SPF rules give to a record whose terminal is not "+all"
ClaimedSpfPoints(z, record, hosts) ==
  5 + (IF UnknownTokens(record) = <<>> /\ ~HasDuplicateSignature(record) THEN 5 ELSE 0)
    + (IF LookupMechanisms(record) <= 10 THEN 2 ELSE 0)
    + (IF \A i \in 1..Len(hosts) : HasAddress(z, hosts[i]) THEN 3 ELSE 0)
    + (IF RecordTerminal(record) = Some("-all") THEN 6
       ELSE IF RecordTerminal(record) = Some("~all") THEN 3 ELSE 0)
    + (IF MechanismCount(record, "ptr") = 0 /\ MechanismCount(record, "include") <= 5
       THEN 4 ELSE 0)

\* C26: for an SPF record that exists and whose terminal is not "+all", the
\* returned points are 5 for existence, plus 5 iff the record has no syntax
\* error and no duplicate (mechanism, value) signature, plus 2 iff at most 10
\* of its mechanisms are include, a, mx, ptr, exists or redirect (ip4, ip6, exp
\* and all never count), plus 3 for host resolution, plus 6 for "-all", 3 for
\* "~all" and 0 for "?all" or no terminal, plus 4 iff it has no ptr mechanism
\* and at most 5 includes.
C26_SpfPoints ==
  (pc = "spf_ret" /\ SpfParsed /\ RecordTerminal(cur.raw_records[1]) # Some("+all")) =>
    /\ cur.parsed_data.terminal = RecordTerminal(cur.raw_records[1])
    /\ cur.parsed_data.lookup_count = LookupMechanisms(cur.raw_records[1])
    /\ cur.points =
         ClaimedSpfPoints(dns, cur.raw_records[1], cur.parsed_data.hosts_to_check)

\* a record with exactly 10 lookup mechanisms, 5 includes and three mechanisms
\* that cost no lookup was returned with full points
C26_TenLookupsFull ==
  /\ pc = "spf_ret"
  /\ SpfParsed
  /\ LookupMechanisms(cur.raw_records[1]) = 10
  /\ Len(Signatures(cur.raw_records[1])) = 13
  /\ MechanismCount(cur.raw_records[1], "include") = 5
  /\ cur.points = SPF_max_points

(***************************************************************************)
(* C27                                                                     *)
(***************************************************************************)
\* the CNAME of the selector points into onmicrosoft.com
DelegatedToM365(z, selector) ==
  LET out == Lookup(z, "CNAME", DkimName(selector))
  IN out.kind = "answer" /\ out.rrs # <<>>
       /\ contains(lower(out.rrs[1]), "onmicrosoft.com")

RotationMessages ==
  { "Multiple DKIM selectors found (good for key rotation)",
    "Single DKIM selector found. Consider adding a second for key rotation" }

DelegationMessages ==
  { "Both M365 DKIM selectors (selector1, selector2) are configured",
    "Only one M365 DKIM selector configured",
    "M365 DKIM selectors not properly configured" }

MessagesAmong(r, texts) ==
  Cardinality({i \in 1..Len(r.messages) : r.messages[i].text \in texts})

KeyRulePoints(bits) == IF bits >= 2048 THEN 8 ELSE IF bits >= 1024 THEN 4 ELSE 0

\* C27: the DKIM checker returns 0 points with no discovered selector, and
\* then neither the key rule nor the delegation queries have run; otherwise
\* exactly one of the two last rules is applied: for Microsoft 365 only the
\* delegation rule (8 points when the CNAME targets of selector1 and selector2
\* both contain "onmicrosoft.com" in any case, 4 when exactly one does, else 0)
\* and never the rotation rule, for any other provider only the rotation rule
\* (4 points iff at least 2 selectors were discovered) and no delegation query.
C27_DkimBranches ==
  (pc = "dkim_ret" /\ cur # NoCheck) =>
    LET parsed == cur.parsed_data
        discovered == parsed["discovered_selectors"]
        delegated == Cardinality({s \in {"selector1", "selector2"} : DelegatedToM365(dns, s)})
        keyRan == "key_lengths" \in DOMAIN parsed
        delegationRan == "m365_cnames" \in DOMAIN parsed
                           \/ "m365_selectors_valid" \in DOMAIN parsed
    IN /\ parsed["is_m365"] = (provider = "microsoft365")
       /\ discovered = <<>> =>
            /\ cur.points = 0
            /\ ~keyRan /\ ~delegationRan
            /\ MessagesAmong(cur, RotationMessages \cup DelegationMessages) = 0
       /\ discovered # <<>> =>
            /\ keyRan
            /\ MessagesAmong(cur, RotationMessages \cup DelegationMessages) = 1
            /\ IF provider = "microsoft365"
               THEN /\ delegationRan
                    /\ MessagesAmong(cur, RotationMessages) = 0
                    /\ parsed["m365_selectors_valid"] = delegated
                    /\ cur.points = 5 + KeyRulePoints(parsed["max_key_length"])
                                      + (IF delegated = 2 THEN 8
                                         ELSE IF delegated = 1 THEN 4 ELSE 0)
               ELSE /\ ~delegationRan
                    /\ MessagesAmong(cur, DelegationMessages) = 0
                    /\ cur.points = 5 + KeyRulePoints(parsed["max_key_length"])
                                      + (IF Len(discovered) >= 2 THEN 4 ELSE 0)

\* a Microsoft 365 domain with two discovered selectors, one of them delegated
\* to a target spelled ONMICROSOFT.com: 4 points of delegation, none of rotation
C27_OneDelegatedNoRotation ==
  /\ pc = "dkim_ret"
  /\ provider = "microsoft365"
  /\ cur.parsed_data["discovered_selectors"] = <<"selector1", "selector2">>
  /\ cur.parsed_data["m365_selectors_valid"] = 1
  /\ DelegatedToM365(dns, "selector1") /\ ~DelegatedToM365(dns, "selector2")
  /\ ~contains(Lookup(dns, "CNAME", DkimName("selector1")).rrs[1], "onmicrosoft.com")
  /\ cur.points = DKIM_POINTS_SELECTOR_EXISTS + DKIM_POINTS_KEY_2048 + DKIM_POINTS_M365_ONE

(***************************************************************************)
(* C28                                                                     *)
(***************************************************************************)
\* the tag=value segments of a record, in order: tag names lower-cased and
\* trimmed, values trimmed
Segments(record) ==
  LET withEq == SelectSeq(split(record, ";"), LAMBDA part : find(part, "=") # 0)
  IN [i \in 1..Len(withEq) |->
        [tag |-> lower(strip(SubSeq(withEq[i], 1, find(withEq[i], "=") - 1))),
         value |-> strip(SubSeq(withEq[i], find(withEq[i], "=") + 1, Len(withEq[i])))]]

\* the DMARC checker has parsed the record and applied no rule to it yet
DmarcJustParsed == pc = "dmarc_policy" /\ cur # NoCheck /\ cur.raw_records # <<>>

\* every segment is in the tag map
TagMapKeepsEverySegment ==
  DmarcJustParsed =>
    LET segs == Segments(cur.raw_records[1])
    IN /\ DOMAIN cur.parsed_data = {segs[i].tag : i \in 1..Len(segs)}
       /\ \A i \in 1..Len(segs) : cur.parsed_data[segs[i].tag] = segs[i].value

\* every tag of a segment is in the tag map, with the value of its last segment
TagMapKeepsLastSegment ==
  DmarcJustParsed =>
    LET segs == Segments(cur.raw_records[1])
        lastOf(t) == Max({i \in 1..Len(segs) : segs[i].tag = t})
    IN /\ DOMAIN cur.parsed_data = {segs[i].tag : i \in 1..Len(segs)}
       /\ \A t \in DOMAIN cur.parsed_data : cur.parsed_data[t] = segs[lastOf(t)].value

HasMailto(rua) ==
  LET uris == split(rua, ",")
  IN \E i \in 1..Len(uris) : startswith(lower(strip(uris[i])), "mailto:")

\* the steps of the policy, rua, alignment and fo rules: the points each awards
\* to the tag map it reads
DmarcRuleStep ==
  LET tags == cur.parsed_data
      awarded == cur'.points - cur.points
      p == lower(DictGet(tags, "p", ""))
      strict == (IF lower(DictGet(tags, "adkim", "r")) = "s" THEN 1 ELSE 0)
                  + (IF lower(DictGet(tags, "aspf", "r")) = "s" THEN 1 ELSE 0)
      fo == DictGet(tags, "fo", "0")
  IN /\ (pc = "dmarc_policy" /\ pc' = "dmarc_rua") =>
          /\ awarded = (IF p = "reject" THEN 15 ELSE IF p = "quarantine" THEN 10 ELSE 0)
          /\ (LastMessage(cur').level = "error") <=> p \notin {"reject", "quarantine", "none"}
     /\ (pc = "dmarc_rua" /\ pc' = "dmarc_align") =>
          awarded = (IF HasMailto(DictGet(tags, "rua", "")) THEN 5 ELSE 0)
     /\ (pc = "dmarc_align" /\ pc' = "dmarc_fo") =>
          awarded = (IF strict = 2 THEN 5 ELSE IF strict = 1 THEN 3 ELSE 0)
     /\ (pc = "dmarc_fo" /\ pc' = "dmarc_pct") =>
          awarded = (IF contains(fo, "1") \/ contains(fo, "s") \/ contains(fo, "d")
                     THEN 3 ELSE 0)

\* C28 as stated: for an existing DMARC record the tag map keeps every
\* tag=value segment (tag names lower-cased and trimmed, unknown tags
\* retained), and the scorer awards 15 for p reject, 10 for quarantine, 0 for
\* none and 0 with an error for a missing or other p; 5 for rua iff a
\* comma-separated URI starts with "mailto:" in any case; 5 iff adkim and aspf
\* are both s, 3 iff exactly one is (each r by default); 3 for fo iff its
\* value ("0" by default) contains "1", "s" or "d".
C28_EverySegmentKept == []TagMapKeepsEverySegment /\ [][DmarcRuleStep]_vars

\* C28, amended: as stated, except that the tag map holds one value per tag
\* name, the value of the last segment with that name; the rules score that
\* value.
C28_LastSegmentKept == []TagMapKeepsLastSegment /\ [][DmarcRuleStep]_vars

\* the record with p=reject followed by p=none and an unknown tag x was
\* returned, scored as p=none
C28_RepeatedTagScored ==
  /\ pc = "dmarc_ret"
  /\ cur.raw_records = <<"v=DMARC1; p=reject; p=none; sp=bar; pct=101; x=y=z">>
  /\ cur.parsed_data["p"] = "none"
  /\ cur.parsed_data["x"] = "y=z"
  /\ HasMessageText(cur, "DMARC policy is 'none' (monitoring only, no protection)")
  /\ cur.points = DMARC_POINTS_EXISTS + DMARC_POINTS_PCT_PARTIAL

(***************************************************************************)
(* C29                                                                     *)
(***************************************************************************)
ReachableDkimPoints == {0, 5, 9, 13, 17, 21}

\* C29: the declared maximum of 25 of the DKIM control is out of reach: the
\* points of a DKIM result are always one of 0, 5, 9, 13, 17, 21, at most 21
\* for a Microsoft 365 domain (5 + 8 + 8) and at most 17 for any other
\* provider (5 + 8 + 4).
C29_DkimPointsBelowMax ==
  (cur # NoCheck /\ cur.control = "dkim") =>
    /\ cur.max_points = 25
    /\ cur.points \in ReachableDkimPoints
    /\ cur.points <= (IF provider = "microsoft365" THEN 21 ELSE 17)
    /\ cur.points < cur.max_points

\* the best DKIM result: a Microsoft 365 domain with a 2048-bit key and both
\* selectors delegated
C29_BestM365Dkim ==
  /\ pc = "dkim_ret"
  /\ provider = "microsoft365"
  /\ DictGet(cur.parsed_data, "max_key_length", 0) = 2048
  /\ DictGet(cur.parsed_data, "m365_selectors_valid", 0) = 2
  /\ cur.remediation = <<>>
  /\ cur.points = 21

(***************************************************************************)
(* C30                                                                     *)
(***************************************************************************)
\* C30: in every returned ScanResult the reported provider is the provider of
\* the MX records listed by the MX check, so a provider other than unknown
\* comes with at least 5 MX points; this holds for every behaviour of the
\* DNS, also when one MX query of the scan fails or times out and the other
\* succeeds.
C30_ProviderAgreesWithMx ==
  pc = "done" =>
    /\ result.provider = detect(StoredMxRecords(result.checks["mx"]))
    /\ result.provider # "unknown" => result.checks["mx"].points >= 5

\* the MX query of scan() timed out and the MX query of the MX checker was
\* answered: the returned scan lists the Microsoft 365 mail host with full MX
\* points, reports the provider unknown and ran the DKIM rules of other providers
C30_OutlookMxProviderUnknown ==
  /\ pc = "done"
  /\ result.provider = "unknown"
  /\ StoredMxRecords(result.checks["mx"]) = <<<<0, MxM365>>>>
  /\ result.checks["mx"].points = 10
  /\ ~result.checks["dkim"].parsed_data["is_m365"]
  /\ HasMessageText(result.checks["dkim"],
                    "Multiple DKIM selectors found (good for key rotation)")

====
